---- MODULE Spec2Model ----
(***************************************************************************)
(* Salt Index: ingestion -> windowed batching -> aggregation pipeline.     *)
(*                                                                         *)
(* The module holds several specifications over one set of variables:      *)
(*   Spec      the batch scheduler (BatchProcessor), the 5 s collection    *)
(*             loop and the graceful shutdown of src/index.js;             *)
(*   SpecMux   the shared Telegram bot manager (connection multiplexer);   *)
(*   SpecConn  one connector instance (deduplication, buffer, cursor) with *)
(*             the cursors table, across a crash and restart;              *)
(*   SpecAgg   one analysed batch folded into the source, tracker and      *)
(*             user aggregate rows (exact rational arithmetic);            *)
(*   SpecBucket the time-bucket computation getTimeBucket;                 *)
(*   SpecLife  the connect / health life cycle of one Twitter connector;   *)
(*   SpecLog   SpecAgg with the batch log and failing database writes;     *)
(*   SpecParse the classifier gateway's parseResponse.                     *)
(* JavaScript runs one callback at a time: an action of the model is the   *)
(* code between two real suspension points (an await on I/O or a timer).   *)
(* Database writes are taken to succeed unless an outcome says otherwise.  *)
(***************************************************************************)
EXTENDS Integers, Sequences, FiniteSets, TLC

\* ------------------------------------------------------------------ bounds
MaxMsgs == 3
MaxTime == 2
MaxFailures == 1
MaxBots == 3
MaxPending == 1
MaxPosted == 2
MaxCrashes == 1
MaxBatches == 2

\* ------------------------------------------------ configuration constants
BatchSize == 2
BatchTimeout == 1

SourceIds == <<"s1", "s2">>
Sources == {SourceIds[i] : i \in 1..Len(SourceIds)}
Trackers == {"A", "B"}
TrackerRows == Trackers
Tokens == {"t1", "t2"}
NoToken == "none"
NullTopic == -1
DefaultTopic == 1
Undefined == 0

TrackerOf(s) == IF s = "s1" THEN "A" ELSE "B"

VARIABLES
  \* clock and connectors
  now, nextId, connQueue,
  \* BatchProcessor
  messageQueue, queuedAt, processing, pc, runCaller, runNow, runOrder,
  runKeys, byTracker, batch, processingInterval, failures,
  \* index.js
  collectionInterval, shutPc, discIdx, exitCode,
  \* TelegramBotManager
  bot, botToken, isPolling, registrations, bots, shutdownPending,
  \* history (observation only)
  everQueued, handed, failedLogged, unlogged, tick, skipReady, dispatchLog,
  shutLog, lateCollect, reinitTo, regAfter, lastRoute, muxInit, closed,
  ownerPending, lastRegister,
  \* one connector instance, the cursors table and the upstream platform
  mode, posted, seenMessages, connBuffer, drained, aggregated, cursor,
  cursorWrites, pollPc, fetched, newestTweetId, crashes,
  \* history of the connector
  accepted, deliveredText, dupDropped, settled, acceptLog, lastDrain,
  \* the connector's health, its upstream feeds, its connect() calls
  health, lastError, pollInterval, timers, stream, streams, connects,
  \* AggregationEngine: tracker configuration, the batch in hand, the rows
  enabledTags, sourceWeights, aggPc, aggBatch, llmResult, srcRow, trkRow,
  userAgg, users, batches,
  \* history of the aggregation
  contribs, userHist, llmRaw, sourceContribs, batchLog, aggDone,
  \* the classifier gateway: raw answer, authors of the batch, result
  response, batchAuthors, parseOut,
  \* getTimeBucket: its arguments and its result
  bkTimestamp, bkBucket, bkResult

clockVars == <<now, nextId, connQueue>>
bpVars == <<messageQueue, queuedAt, processing, pc, runCaller, runNow,
            runOrder, runKeys, byTracker, batch, failures>>
appVars == <<collectionInterval, processingInterval, shutPc, discIdx, exitCode>>
muxVars == <<bot, botToken, isPolling, registrations, bots, shutdownPending>>
bpHist == <<everQueued, handed, failedLogged, unlogged, tick, skipReady,
            dispatchLog>>
appHist == <<shutLog, lateCollect>>
muxHist == <<reinitTo, regAfter, lastRoute, muxInit, closed, ownerPending,
             lastRegister>>
lifeVars == <<health, lastError, pollInterval, timers, stream, streams, connects>>
connVars == <<mode, posted, seenMessages, connBuffer, drained, aggregated,
              cursor, cursorWrites, pollPc, fetched, newestTweetId, crashes,
              accepted, deliveredText, dupDropped, settled, acceptLog,
              lastDrain, lifeVars>>
parseVars == <<response, batchAuthors, parseOut>>
aggVars == <<enabledTags, sourceWeights, aggPc, aggBatch, llmResult, srcRow,
             trkRow, userAgg, users, batches, contribs, userHist, llmRaw,
             sourceContribs, batchLog, aggDone, parseVars>>
bkVars == <<bkTimestamp, bkBucket, bkResult>>
vars == <<clockVars, bpVars, appVars, muxVars, bpHist, muxHist, appHist,
          connVars, aggVars, bkVars>>

\* ------------------------------------------------------------ sequences
EmptyMap == [x \in {} |-> 0]

RECURSIVE SeqToSet(_)
SeqToSet(q) == IF q = <<>> THEN {} ELSE {Head(q)} \cup SeqToSet(Tail(q))

Take_Mut(q, n) == SubSeq(q, 1, IF Len(q) < n + 1 THEN Len(q) ELSE n + 1)
Take(q, n) == SubSeq(q, 1, IF Len(q) < n THEN Len(q) ELSE n)
Drop(q, n) == SubSeq(q, (IF Len(q) < n THEN Len(q) ELSE n) + 1, Len(q))

Ids(q) == {q[i].id : i \in 1..Len(q)}

\* ---------------------------------------------------- BatchProcessor
\* groupByTracker: the messages of one tracker, in queue order
GroupOf(q, t) ==
  LET Is(m) == m.trackerId = t IN SelectSeq(q, Is)

\* key order of the grouped object: trackers by first appearance in the queue
RECURSIVE KeyOrder(_, _)
KeyOrder(q, seen) ==
  IF q = <<>> THEN <<>>
  ELSE IF Head(q).trackerId \in seen THEN KeyOrder(Tail(q), seen)
  ELSE <<Head(q).trackerId>> \o KeyOrder(Tail(q), seen \cup {Head(q).trackerId})

groupByTracker(q) == [t \in Trackers |-> GroupOf(q, t)]

\* lines 87-93: hasEnoughMessages || hasTimedOut; a missing timer gives NaN,
\* and NaN >= batchTimeout is false
hasEnoughMessages(msgs) == Len(msgs) >= BatchSize
hasTimedOut_Mut(qAt, n) == qAt # Undefined /\ n - qAt > BatchTimeout
hasTimedOut(qAt, n) == qAt # Undefined /\ n - qAt >= BatchTimeout
Ready(msgs, qAt, n) == hasEnoughMessages(msgs) \/ hasTimedOut(qAt, n)

\* The synchronous part of the for/while loops of processBatches, from the
\* tracker at the head of order up to the next await of processBatch or to
\* the end of the loop.  fresh: the head tracker has not been examined yet.
RECURSIVE Advance(_, _, _, _, _)
Advance(order, byT, qAt, n, fresh) ==
  IF order = <<>> THEN
    [done |-> TRUE, order |-> order, byT |-> byT, qAt |-> qAt, batch |-> <<>>]
  ELSE
    LET t == Head(order)
        msgs == byT[t]
    IN IF fresh /\ ~Ready(msgs, qAt[t], n) THEN
         Advance(Tail(order), byT, qAt, n, TRUE)
       ELSE IF Len(msgs) > 0 THEN
         [done |-> FALSE, order |-> order,
          byT |-> [byT EXCEPT ![t] = Drop(msgs, BatchSize)],
          qAt |-> qAt, batch |-> Take(msgs, BatchSize)]
       ELSE
         Advance(Tail(order), byT, [qAt EXCEPT ![t] = Undefined], n, TRUE)

\* lines 109-118: drop from the queue every grouped tracker whose timer is unset
RemoveProcessed(q, keys, qAt) ==
  LET processedTrackerIds == {t \in keys : qAt[t] = Undefined}
      Keep(m) == m.trackerId \notin processedTrackerIds
  IN IF processedTrackerIds # {} THEN SelectSeq(q, Keep) ELSE q

CountOf(q) == [t \in Trackers |-> Len(GroupOf(q, t))]

\* ------------------------------------------------------------------ Init
Msg(i, s) == [id |-> i, trackerId |-> TrackerOf(s), sourceId |-> s]

\* what a run of processBatches saw when it started, for the claims: the
\* subjects with pending messages, those of them that were ready, those that
\* had batchSize messages and a timer started at this very instant; the
\* subjects it handed to processBatch since; the messages grouped at the
\* start (queue) and the batches handed to processBatch, in order; runs
\* counts the runs in progress, and guard flips whenever a call returns at
\* the re-entrancy guard
ReadyAtStart(q, qAt, n, t) ==
  \/ CountOf(q)[t] >= BatchSize
  \/ (qAt[t] # Undefined /\ n - qAt[t] >= BatchTimeout)
Snapshot(q, qAt, n) ==
  [status |-> "running",
   pending |-> {t \in Trackers : CountOf(q)[t] > 0},
   ready |-> {t \in Trackers : CountOf(q)[t] > 0 /\ ReadyAtStart(q, qAt, n, t)},
   instant |-> {t \in Trackers : CountOf(q)[t] >= BatchSize /\ qAt[t] = n},
   handed |-> {}, queue |-> groupByTracker(q), batches |-> <<>>,
   runs |-> 0, guard |-> FALSE]
NoTick == [status |-> "none", pending |-> {}, ready |-> {}, instant |-> {},
           handed |-> {}, queue |-> [t \in Trackers |-> <<>>],
           batches |-> <<>>, runs |-> 0, guard |-> FALSE]

InitBatchProcessor ==
  /\ now = 1 /\ nextId = 1
  /\ connQueue = [s \in Sources |-> <<>>]
  /\ messageQueue = <<>>
  /\ queuedAt = [t \in Trackers |-> Undefined]
  /\ processing = FALSE
  /\ pc = "idle" /\ runCaller = "none" /\ runNow = 0 /\ runOrder = <<>>
  /\ runKeys = {} /\ byTracker = [t \in Trackers |-> <<>>] /\ batch = <<>>
  /\ failures = 0
  /\ everQueued = {} /\ handed = [i \in 1..(MaxMsgs + 1) |-> 0]
  /\ failedLogged = {} /\ unlogged = FALSE
  /\ tick = NoTick /\ skipReady = {} /\ dispatchLog = <<>>

InitApp ==
  /\ collectionInterval = TRUE /\ processingInterval = TRUE
  /\ shutPc = "running" /\ discIdx = 0 /\ exitCode = -1
  /\ shutLog = <<>> /\ lateCollect = FALSE

\* ------------------------------------------------ BatchProcessor actions
Exited == shutPc = "exited"
\* the shutdown routine is between two awaits that resolve at once: nothing
\* else runs until it reaches a real suspension point
ShutdownSync == shutPc \in {"flushReturned"}
CanRun == ~Exited /\ ~ShutdownSync

\* queueMessages (lines 51-64)
RECURSIVE StartTimers(_, _, _)
StartTimers(msgs, qAt, n) ==
  IF msgs = <<>> THEN qAt
  ELSE LET t == Head(msgs).trackerId
       IN StartTimers(Tail(msgs),
                      IF qAt[t] = Undefined THEN [qAt EXCEPT ![t] = n] ELSE qAt, n)

queueMessages_Mut(messages) ==
  /\ queuedAt' = StartTimers(messages, queuedAt, now)
  /\ messageQueue' = messages \o messageQueue
  /\ everQueued' = everQueued \cup Ids(messages)
queueMessages(messages) ==
  /\ queuedAt' = StartTimers(messages, queuedAt, now)
  /\ messageQueue' = messageQueue \o messages
  /\ everQueued' = everQueued \cup Ids(messages)

\* the rest of a processBatches run after Advance returned r: either the
\* next processBatch is awaited, or lines 109-124 end the run
Continue(r, caller, tk, keys) ==
  /\ queuedAt' = r.qAt
  /\ runOrder' = r.order
  /\ byTracker' = r.byT
  /\ batch' = r.batch
  /\ IF r.done
     THEN /\ messageQueue' = RemoveProcessed(messageQueue, keys, r.qAt)
          /\ processing' = FALSE
          /\ pc' = "idle"
          /\ tick' = [tk EXCEPT !.status = "done", !.runs = @ - 1]
          /\ shutPc' = IF caller = "shutdown" THEN "flushReturned" ELSE shutPc
     ELSE /\ messageQueue' = messageQueue
          /\ processing' = TRUE
          /\ pc' = "await"
          /\ tick' = [tk EXCEPT !.status = "running",
                                !.handed = @ \cup {Head(r.order)},
                                !.batches = Append(@, r.batch)]
          /\ shutPc' = IF caller = "shutdown" THEN "flushing" ELSE shutPc

\* processBatches (lines 69-125) from its call to its first suspension
isProcessing_Mut == FALSE
isProcessing == processing
processBatches(caller) ==
  IF isProcessing THEN
    /\ skipReady' = skipReady \cup
                    (Snapshot(messageQueue, queuedAt, now).ready \ runKeys)
    /\ shutPc' = IF caller = "shutdown" THEN "flushReturned" ELSE shutPc
    /\ tick' = [tick EXCEPT !.guard = ~@]
    /\ UNCHANGED <<messageQueue, queuedAt, processing, pc, runCaller, runNow,
                   runOrder, runKeys, byTracker, batch>>
  ELSE IF Len(messageQueue) = 0 THEN
    /\ shutPc' = IF caller = "shutdown" THEN "flushReturned" ELSE shutPc
    /\ UNCHANGED <<messageQueue, queuedAt, processing, pc, runCaller, runNow,
                   runOrder, runKeys, byTracker, batch, tick, skipReady>>
  ELSE
    LET order == KeyOrder(messageQueue, {})
        r == Advance(order, groupByTracker(messageQueue), queuedAt, now, TRUE)
    IN /\ runNow' = now
       /\ runCaller' = caller
       /\ runKeys' = SeqToSet(order)
       /\ Continue(r, caller,
                   [Snapshot(messageQueue, queuedAt, now)
                      EXCEPT !.runs = tick.runs + 1, !.guard = tick.guard],
                   SeqToSet(order))
       /\ UNCHANGED skipReady

\* setInterval(() => this.processBatches(), 10000)  (lines 30-32)
ProcessTick ==
  /\ CanRun /\ processingInterval
  /\ processBatches("timer")
  /\ UNCHANGED <<clockVars, failures, collectionInterval, processingInterval,
                 discIdx, exitCode, muxVars, everQueued, handed, dispatchLog, failedLogged,
                 unlogged, muxHist, connVars, aggVars, bkVars, appHist>>

\* how often a message was handed to the classifier: 0, 1, or 2 for more
BumpHanded(b) ==
  [i \in DOMAIN handed |->
     IF i \in Ids(b) /\ handed[i] < 2 THEN handed[i] + 1 ELSE handed[i]]

\* processBatch (lines 146-185) returns to the loop of processBatches.
\*  "ok"    the classifier answered, the batch was logged and aggregated
\*  "fail"  the classifier call threw; the catch wrote the failed-batch log
\*  "throw" the classifier call threw and the failed-batch log write rejected:
\*          the exception escapes to the catch of processBatches (line 120)
Outcomes == {"ok", "fail", "throw"}

BatchReturn(outcome) ==
  /\ CanRun /\ pc = "await"
  /\ outcome # "ok" => failures < MaxFailures
  /\ failures' = IF outcome = "ok" THEN failures ELSE failures + 1
  /\ handed' = IF Head(runOrder) \in TrackerRows THEN BumpHanded(batch) ELSE handed
  /\ dispatchLog' = Append(dispatchLog, batch)
  /\ unlogged' = (unlogged \/ outcome = "throw")
  /\ failedLogged' = IF outcome = "fail" THEN failedLogged \cup Ids(batch)
                     ELSE failedLogged
  /\ IF outcome = "throw"
     THEN /\ processing' = FALSE
          /\ pc' = "idle"
          /\ tick' = [tick EXCEPT !.status = "aborted", !.runs = @ - 1]
          /\ shutPc' = IF runCaller = "shutdown" THEN "flushReturned" ELSE shutPc
          /\ UNCHANGED <<messageQueue, queuedAt, runOrder, byTracker, batch>>
     ELSE Continue(Advance(runOrder, byTracker, queuedAt, runNow, FALSE),
                   runCaller, tick, runKeys)
  /\ UNCHANGED <<clockVars, runCaller, runNow, runKeys, collectionInterval,
                 processingInterval, discIdx, exitCode, muxVars, everQueued,
                 skipReady, muxHist, connVars, aggVars, bkVars, appHist>>

\* ------------------------------------------------ TelegramBotManager
\* A chat identifier is "@name" or a numeric id written as a string; its text
\* is kept as a list of tokens so that "@a/x" differs from "@a".
Ident(at, name) == [at |-> at, name |-> name]
IdString(chatId) == IF chatId = 100 THEN "100" ELSE "200"
NaN == -2
parseInt(str) == IF str = "1" THEN 1 ELSE IF str = "2" THEN 2 ELSE NaN

\* a target is chat, or chat "/" topic
Target(chat, slash, topic) == [chat |-> chat, slash |-> slash, topic |-> topic]

\* TelegramConnector.parseTarget (lines 207-235)
parseTarget(target) ==
  IF ~target.slash THEN [chatIdentifier |-> target.chat, topicId |-> NullTopic]
  ELSE IF parseInt(target.topic) = NaN
       THEN [chatIdentifier |->
               Ident(target.chat.at, target.chat.name \o <<"/", target.topic>>),
             topicId |-> NullTopic]
       ELSE [chatIdentifier |-> target.chat, topicId |-> parseInt(target.topic)]

\* an incoming event: msg.chat.id, msg.chat.username ("" when the chat has
\* none), msg.message_thread_id (NoThread when the event carries none)
NoThread == 0
Event(chatId, username, thread) ==
  [chat |-> [id |-> chatId, username |-> username], thread |-> thread]

\* chatMatches (lines 335-343)
chatMatches(chatIdentifier, chatId, chatUsername) ==
  IF chatIdentifier.at
  THEN chatUsername # <<>> /\ chatUsername[1] = chatIdentifier
  ELSE chatIdentifier = Ident(FALSE, <<IdString(chatId)>>)

\* line 298: msg.message_thread_id || 1
messageTopicId_Mut(msg) == msg.thread
messageTopicId(msg) == IF msg.thread = NoThread THEN DefaultTopic ELSE msg.thread

\* routeMessage (lines 296-325): the sources whose callback is invoked
routeMessage_Mut(msg, regs) ==
  LET chatUsername == IF msg.chat.username # ""
                      THEN <<Ident(TRUE, <<msg.chat.username>>)>> ELSE <<>>
  IN {s \in DOMAIN regs :
        chatMatches(regs[s].chatIdentifier, msg.chat.id, chatUsername)}
routeMessage(msg, regs) ==
  LET chatUsername == IF msg.chat.username # ""
                      THEN <<Ident(TRUE, <<msg.chat.username>>)>> ELSE <<>>
  IN {s \in DOMAIN regs :
        /\ chatMatches(regs[s].chatIdentifier, msg.chat.id, chatUsername)
        /\ (regs[s].topicId = NullTopic \/ regs[s].topicId = messageTopicId(msg))}

\* the try / catch around callback(msg), lines 319-323
callbackCaught_Mut == FALSE
callbackCaught == TRUE

\* the loop of lines 303-324 over the registrations in Map order: the
\* callbacks invoked, in order; throwing are the sources whose callback throws
RECURSIVE routeCalls(_, _, _, _)
routeCalls(order, msg, regs, throwing) ==
  IF order = <<>> THEN <<>>
  ELSE LET sourceId == Head(order)
       IN IF sourceId \notin routeMessage(msg, regs)
          THEN routeCalls(Tail(order), msg, regs, throwing)
          ELSE IF sourceId \in throwing /\ ~callbackCaught
          THEN <<sourceId>>
          ELSE <<sourceId>> \o routeCalls(Tail(order), msg, regs, throwing)

\* the iteration orders of a Map with keys S
MapOrders(S) ==
  {o \in [1..Cardinality(S) -> S] : \A i, j \in DOMAIN o : o[i] = o[j] => i = j}

StopPolling(bs, b) == [bs EXCEPT ![b].polling = FALSE]

\* shutdown (lines 392-414) up to its await; the rest is shutdownResume
shutdownCall ==
  IF bot # 0 /\ isPolling
  THEN /\ bots' = StopPolling(bots, bot)
       /\ shutdownPending' = shutdownPending + 1
       /\ UNCHANGED <<bot, botToken, isPolling, registrations>>
  ELSE /\ registrations' = EmptyMap
       /\ bot' = 0 /\ botToken' = NoToken /\ isPolling' = FALSE
       /\ UNCHANGED <<bots, shutdownPending>>

\* lines 405-413, after stopPolling settled
shutdownResume ==
  /\ shutdownPending > 0
  /\ shutdownPending' = shutdownPending - 1
  /\ registrations' = EmptyMap
  /\ bot' = 0 /\ botToken' = NoToken /\ isPolling' = FALSE
  /\ UNCHANGED bots

\* registerSource (lines 353-369): throws when there is no bot, else sets
\* the Map entry of sourceId
registerSource_Mut(sourceId, sel) ==
  [threw |-> FALSE,
   registrations |-> [x \in DOMAIN registrations \cup {sourceId} |->
                        IF x = sourceId THEN sel ELSE registrations[x]]]
registerSource(sourceId, sel) ==
  IF bot = 0 THEN [threw |-> TRUE, registrations |-> registrations]
  ELSE [threw |-> FALSE,
        registrations |-> [x \in DOMAIN registrations \cup {sourceId} |->
                             IF x = sourceId THEN sel ELSE registrations[x]]]

\* unregisterSource (lines 376-386)
unregisterSource(sourceId) ==
  registrations' = [x \in DOMAIN registrations \ {sourceId} |-> registrations[x]]

\* ------------------------------------------------ connectors, index.js
SchedEvents == {Event(100, "a", NoThread), Event(200, "b", NoThread)}

\* a bot event reaches handleMessage of the matching sources, which push the
\* normalized message on their own buffer (TelegramConnector lines 273-326)
Deliver(ev) ==
  /\ CanRun /\ nextId <= MaxMsgs
  /\ \E b \in 1..Len(bots) : bots[b].polling
  /\ routeMessage(ev, registrations) # {}
  /\ connQueue' = [s \in Sources |->
                     IF s \in routeMessage(ev, registrations)
                     THEN Append(connQueue[s], Msg(nextId, s)) ELSE connQueue[s]]
  /\ nextId' = nextId + 1
  /\ UNCHANGED <<now, bpVars, appVars, muxVars, bpHist, muxHist, connVars, aggVars, bkVars,
                 appHist>>

ClockTick ==
  /\ CanRun /\ now < MaxTime
  /\ now' = now + 1
  /\ UNCHANGED <<nextId, connQueue, bpVars, appVars, muxVars, bpHist, muxHist,
                 connVars, aggVars, bkVars, appHist>>

\* ConnectorManager.getAllMessages (lines 222-235): drain every connector
RECURSIVE getAllMessages(_, _)
getAllMessages(ids, cq) ==
  IF ids = <<>> THEN <<>> ELSE cq[Head(ids)] \o getAllMessages(Tail(ids), cq)

\* the collection loop is live from startMessageCollection to clearInterval
CollectionLive_Mut == TRUE
CollectionLive == collectionInterval

\* the 5 s collection callback (index.js lines 142-155)
Collect ==
  /\ CanRun /\ CollectionLive
  /\ LET messages == getAllMessages(SourceIds, connQueue)
     IN /\ Len(messages) > 0
        /\ queueMessages(messages)
  /\ connQueue' = [s \in Sources |-> <<>>]
  /\ lateCollect' = (lateCollect \/ shutLog # <<>>)
  /\ UNCHANGED <<now, nextId, processing, pc, runCaller, runNow, runOrder,
                 runKeys, byTracker, batch, failures, appVars, muxVars, handed, dispatchLog,
                 failedLogged, unlogged, tick, skipReady, muxHist, connVars, aggVars, bkVars, shutLog>>

\* ------------------------------------------------ graceful shutdown
\* shutdown(signal), index.js lines 166-197: up to the await of server.close
Signal ==
  /\ shutPc = "running"
  /\ collectionInterval' = FALSE
  /\ shutPc' = "httpClosing"
  /\ shutLog' = Append(shutLog, "cancelCollection")
  /\ UNCHANGED <<clockVars, bpVars, processingInterval, discIdx, exitCode,
                 muxVars, bpHist, muxHist, connVars, aggVars, bkVars>>
  /\ UNCHANGED lateCollect

\* lines 199-205: the remaining messages are handed to processBatches
HttpClosed ==
  /\ shutPc = "httpClosing"
  /\ IF Len(messageQueue) > 0
     THEN /\ shutLog' = Append(shutLog, "flushStart")
          /\ processBatches("shutdown")
     ELSE /\ shutPc' = "flushReturned"
          /\ UNCHANGED <<shutLog, messageQueue, queuedAt, processing, pc,
                         runCaller, runNow, runOrder, runKeys, byTracker, batch,
                         tick, skipReady>>
  /\ UNCHANGED <<clockVars, failures, collectionInterval, processingInterval,
                 discIdx, exitCode, muxVars, everQueued, handed, dispatchLog, failedLogged,
                 unlogged, muxHist, connVars, aggVars, bkVars>>
  /\ UNCHANGED lateCollect

\* lines 207-221: batchProcessor.stop(), cleanupManager.stop(), disconnectAll()
AfterFlush ==
  /\ shutPc = "flushReturned"
  /\ processingInterval' = FALSE
  /\ shutLog' = shutLog \o
        (IF shutLog # <<>> /\ shutLog[Len(shutLog)] = "flushStart"
         THEN <<"flushEnd">> ELSE <<>>) \o <<"stopProcessor">>
  /\ shutPc' = "disconnecting"
  /\ discIdx' = 0
  /\ UNCHANGED <<clockVars, bpVars, collectionInterval, exitCode, muxVars,
                 bpHist, muxHist, connVars, aggVars, bkVars>>
  /\ UNCHANGED lateCollect

\* ConnectorManager.disconnectAll (BaseConnector.js lines 247-256): the next
\* connector's disconnect, which unregisters it (TelegramConnector 357-364)
DisconnectNext ==
  /\ shutPc = "disconnecting" /\ discIdx < Len(SourceIds)
  /\ unregisterSource(SourceIds[discIdx + 1])
  /\ discIdx' = discIdx + 1
  /\ shutLog' = Append(shutLog, SourceIds[discIdx + 1])
  /\ UNCHANGED <<clockVars, bpVars, collectionInterval, processingInterval,
                 shutPc, exitCode, bot, botToken, isPolling, bots,
                 shutdownPending, bpHist, muxHist, connVars, aggVars, bkVars>>
  /\ UNCHANGED lateCollect

\* BaseConnector.js line 259: TelegramBotManager.getInstance().shutdown()
MuxShutdown ==
  /\ shutPc = "disconnecting" /\ discIdx = Len(SourceIds)
  /\ shutdownCall
  /\ shutLog' = Append(shutLog, "muxShutdown")
  /\ IF bot # 0 /\ isPolling
     THEN shutPc' = "muxStopping" /\ exitCode' = exitCode
     ELSE shutPc' = "exited" /\ exitCode' = 0
  /\ UNCHANGED <<clockVars, bpVars, collectionInterval, processingInterval,
                 discIdx, bpHist, muxHist, connVars, aggVars, bkVars>>
  /\ UNCHANGED lateCollect

\* the manager's shutdown completes; index.js lines 224-230: process.exit(0)
MuxStopped ==
  /\ shutPc = "muxStopping"
  /\ shutdownResume
  /\ shutPc' = "exited" /\ exitCode' = 0
  /\ UNCHANGED <<clockVars, bpVars, collectionInterval, processingInterval,
                 discIdx, bpHist, muxHist, connVars, aggVars, bkVars, appHist>>

\* lines 176-179: the 30 s forced exit
ForceExit ==
  /\ shutPc \notin {"running", "exited"} /\ ~ShutdownSync
  /\ shutPc' = "exited" /\ exitCode' = 1
  /\ UNCHANGED <<clockVars, bpVars, collectionInterval, processingInterval,
                 discIdx, muxVars, bpHist, muxHist, connVars, aggVars, bkVars, appHist>>

\* ------------------------------------------------ Spec: the scheduler
NoRoute == [seen |-> FALSE, msg |-> Event(100, "", NoThread), to |-> {},
            calls |-> <<>>, threw |-> {}]

\* no registerSource call observed
NoRegister == [seen |-> FALSE, sourceId |-> "s1", threw |-> FALSE,
               sel |-> [chatIdentifier |-> Ident(FALSE, <<>>),
                        topicId |-> NullTopic]]

\* connect() calls of one connector; null handles and the null error
MaxCalls == 2
Null == "null"
NoHandle == 0
NoCall == [pc |-> "new", error |-> Null]

\* no getMessages call yet
NoDrain == [seen |-> FALSE, from |-> 0, messages |-> <<>>]

\* a connector as constructed (TwitterConnector lines 9-17), an empty
\* cursors table, nothing posted upstream
InitConnector ==
  /\ posted = <<>> /\ seenMessages = {} /\ connBuffer = <<>> /\ drained = <<>>
  /\ aggregated = {} /\ cursor = Undefined /\ cursorWrites = <<>>
  /\ pollPc = "idle" /\ fetched = <<>> /\ newestTweetId = Undefined
  /\ crashes = 0 /\ accepted = {} /\ deliveredText = {} /\ dupDropped = {}
  /\ settled = {}
  /\ acceptLog = <<>> /\ lastDrain = NoDrain
  /\ health = "unknown" /\ lastError = Null
  /\ pollInterval = NoHandle /\ timers = {}
  /\ stream = NoHandle /\ streams = {}
  /\ connects = [c \in 1..MaxCalls |-> NoCall]

\* empty aggregate tables, no batch in hand
InitAggregation ==
  /\ aggPc = "idle" /\ batches = 0
  /\ aggBatch = [s \in Sources |-> [count |-> 0, authors |-> 0]]
  /\ llmResult = [sentimentScore |-> 0, messageCount |-> 0, authorCount |-> 0,
                  tagCounts |-> [t \in {} |-> 0], perUser |-> <<>>]
  /\ srcRow = [s \in Sources |->
                 [present |-> FALSE, sentiment_score |-> [n |-> 0, d |-> 1],
                  message_count |-> 0, author_count |-> 0,
                  tag_counts |-> [t \in {} |-> 0]]]
  /\ trkRow = [present |-> FALSE, sentiment_score |-> [n |-> 0, d |-> 1],
               message_count |-> 0, author_count |-> 0,
               tag_counts |-> [t \in {} |-> 0]]
  /\ userAgg = [u \in {"telegram:1", "telegram:2"} |->
                  [present |-> FALSE, total_messages |-> 0,
                   avg_sentiment |-> 0, tag_counts |-> [t \in {} |-> 0]]]
  /\ users = {}
  /\ contribs = <<>>
  /\ userHist = [u \in {"telegram:1", "telegram:2"} |-> <<>>]
  /\ llmRaw = [t \in {} |-> 0]
  /\ sourceContribs = [s \in {} |-> 0]
  /\ batchLog = <<>> /\ aggDone = {}
  /\ response = [seen |-> FALSE] /\ batchAuthors = <<>>
  /\ parseOut = [done |-> FALSE]
\* a timestamp: day of the year counted from 0 for January 1st, and the
\* local time of day; getTimeBucket not called yet
Timestamp(d, h, m, sec) == [day |-> d, hours |-> h, minutes |-> m, seconds |-> sec]
NoBucket == [done |-> FALSE, bucketStart |-> 0, bucketEnd |-> 0]
AggregationQuiet ==
  /\ bkTimestamp = Timestamp(0, 0, 0, 0) /\ bkBucket = "1min"
  /\ bkResult = NoBucket
  /\ InitAggregation
  /\ enabledTags = {"optimism", "fear"}
  /\ sourceWeights = [s \in Sources |-> 10]

InitSched ==
  /\ InitBatchProcessor /\ InitApp /\ InitConnector /\ mode = "stream"
  /\ AggregationQuiet
  /\ bot = 1 /\ botToken = "t1" /\ isPolling = TRUE
  /\ bots = <<[token |-> "t1", polling |-> TRUE]>>
  /\ shutdownPending = 0
  /\ registrations =
       [s \in Sources |->
          parseTarget(Target(Ident(TRUE, <<IF s = "s1" THEN "a" ELSE "b">>),
                             FALSE, ""))]
  /\ reinitTo = NoToken /\ regAfter = {} /\ lastRoute = NoRoute
  /\ muxInit = (bot # 0) /\ closed = FALSE /\ ownerPending = 0
  /\ lastRegister = NoRegister

Init == InitSched

Next ==
  \/ ClockTick
  \/ \E ev \in SchedEvents : Deliver(ev)
  \/ Collect
  \/ ProcessTick
  \/ \E o \in Outcomes : BatchReturn(o)
  \/ Signal
  \/ HttpClosed
  \/ AfterFlush
  \/ DisconnectNext
  \/ MuxShutdown
  \/ MuxStopped
  \/ ForceExit

Spec == Init /\ [][Next]_vars

C2_RemovedOnlyAfterDispatch ==
  \A i \in everQueued : i \in Ids(messageQueue) \/ handed[i] >= 1

\* C7: the messages of a batch whose classifier call failed (and was logged
\* as failed, every failure so far having been logged exactly once) are
\* handed to the classifier only that once and are out of the queue when the
\* run has ended.
C7_FailedBatchConsumed ==
  ~unlogged =>
    \A i \in failedLogged :
      /\ handed[i] <= 1
      /\ (pc = "idle" => i \notin Ids(messageQueue))

\* C8: when graceful shutdown has completed, every message that was queued
\* has been dispatched.
C8_ShutdownFlushesAll ==
  (Exited /\ exitCode = 0) => \A i \in everQueued : handed[i] >= 1

\* the batches, in dispatch order, that carried message id
BatchesOf(id) ==
  {i \in 1..Len(dispatchLog) :
     \E k \in 1..Len(dispatchLog[i]) : dispatchLog[i][k].id = id}
FirstBatch(id) == CHOOSE i \in BatchesOf(id) : \A j \in BatchesOf(id) : i <= j
DispatchedOf(s) ==
  {id \in 1..(MaxMsgs + 1) :
     \E i \in 1..Len(dispatchLog) : \E k \in 1..Len(dispatchLog[i]) :
       dispatchLog[i][k] = Msg(id, s)}

RECURSIVE Concat(_)
Concat(bs) == IF bs = <<>> THEN <<>> ELSE Head(bs) \o Concat(Tail(bs))
TickBatches(t) ==
  SelectSeq(tick.batches, LAMBDA b : b # <<>> /\ b[1].trackerId = t)
CeilDiv(k, n) == (k + n - 1) \div n
Chunked(t) ==
  LET bs == TickBatches(t)
  IN /\ Len(bs) = CeilDiv(Len(tick.queue[t]), BatchSize)
     /\ \A i \in 1..Len(bs) :
          /\ Len(bs[i]) \in 1..BatchSize
          /\ \A k \in 1..Len(bs[i]) : bs[i][k].trackerId = t
     /\ Concat(bs) = tick.queue[t]

C34_TimerIffPending ==
  (pc = "idle" /\ ~processing) =>
    \A t \in Trackers :
      (queuedAt[t] # Undefined) <=> (Len(GroupOf(messageQueue, t)) > 0)

\* C35: a step of a processBatches run leaves the pending messages and the
\* timer of every subject the run has not dispatched as they were.
C35_OtherSubjectsUntouched ==
  [][tick' # tick =>
       \A t \in Trackers \ tick'.handed :
         /\ GroupOf(messageQueue', t) = GroupOf(messageQueue, t)
         /\ queuedAt'[t] = queuedAt[t]]_vars

\* C36: no message is handed to the classifier twice, and while no run is
\* in progress no message that was handed to it is still in the queue.
C36_DispatchedAtMostOnce ==
  \A i \in everQueued :
    /\ handed[i] <= 1
    /\ (pc = "idle" /\ handed[i] >= 1) => i \notin Ids(messageQueue)

\* C37: at most one run of processBatches is in progress; the flag
\* processing is set exactly while a run is suspended in processBatch, so it
\* is clear once the run has ended or was aborted; and a call that returns
\* at the re-entrancy guard changes neither the queue nor the timers nor
\* the state of the run in progress.
C37_SingleRun ==
  /\ [](/\ tick.runs \in {0, 1}
        /\ processing <=> (pc = "await")
        /\ processing <=> (tick.runs = 1)
        /\ tick.status \in {"done", "aborted"} => ~processing)
  /\ [][tick'.guard # tick.guard =>
          /\ processing /\ processing'
          /\ UNCHANGED <<messageQueue, queuedAt, pc, runOrder, byTracker,
                         batch>>]_vars

\* a tick came while a run was suspended, and the run then went on to its end
C37_Witness ==
  /\ tick.guard /\ tick.status = "done" /\ tick.handed # {}

IsPrefix(a, b) == Len(a) <= Len(b) /\ a = SubSeq(b, 1, Len(a))
Has(q, x) == \E k \in 1..Len(q) : q[k] = x
ShutdownSteps(flush) ==
  <<"cancelCollection">> \o (IF flush THEN <<"flushStart", "flushEnd">> ELSE <<>>)
    \o <<"stopProcessor">> \o SourceIds \o <<"muxShutdown">>

initialize(botToken_) ==
  IF bot # 0 /\ botToken = botToken_ /\ isPolling
  THEN UNCHANGED muxVars
  ELSE
    LET differs == bot # 0 /\ botToken # botToken_
        awaits == differs /\ isPolling
        bots1 == IF awaits THEN StopPolling(bots, bot) ELSE bots
    IN /\ Len(bots) < MaxBots
       /\ shutdownPending' = IF awaits THEN shutdownPending + 1 ELSE shutdownPending
       /\ registrations' = IF differs /\ ~awaits THEN EmptyMap ELSE registrations
       /\ botToken' = botToken_
       /\ bots' = Append(bots1, [token |-> botToken_, polling |-> TRUE])
       /\ bot' = Len(bots) + 1
       /\ isPolling' = TRUE

Targets ==
  {Target(Ident(TRUE, <<"a">>), FALSE, ""), Target(Ident(TRUE, <<"a">>), TRUE, "1"),
   Target(Ident(TRUE, <<"a">>), TRUE, "2"), Target(Ident(TRUE, <<"a">>), TRUE, "x"),
   Target(Ident(FALSE, <<"100">>), FALSE, "")}
MuxEvents ==
  {Event(c[1], c[2], th) : c \in {<<100, "a">>, <<100, "">>, <<200, "b">>},
                           th \in {NoThread, 1, 2}}

schedUnchanged ==
  UNCHANGED <<clockVars, bpVars, appVars, bpHist, appHist, connVars, aggVars,
              bkVars>>

MuxInitialize(tok) ==
  /\ initialize(tok)
  /\ IF bot # 0 /\ botToken = tok /\ isPolling
     THEN UNCHANGED <<reinitTo, regAfter>>
     ELSE /\ reinitTo' = IF bot # 0 THEN tok ELSE NoToken
          /\ regAfter' = {}
  /\ muxInit' = TRUE /\ closed' = FALSE
  /\ lastRegister' = NoRegister
  /\ UNCHANGED <<lastRoute, ownerPending>>
  /\ schedUnchanged

\* TelegramConnector.connect (lines 250-258): registerSource with the parsed
\* target
MuxRegister(s, target) ==
  /\ LET r == registerSource(s, parseTarget(target))
     IN /\ registrations' = r.registrations
        /\ regAfter' = IF reinitTo # NoToken /\ ~r.threw
                       THEN regAfter \cup {s} ELSE regAfter
        /\ lastRegister' = [seen |-> TRUE, sourceId |-> s, threw |-> r.threw,
                            sel |-> parseTarget(target)]
  /\ lastRoute' = NoRoute
  /\ UNCHANGED <<bot, botToken, isPolling, bots, shutdownPending, reinitTo,
                 muxInit, closed, ownerPending>>
  /\ schedUnchanged

MuxUnregister(s) ==
  /\ unregisterSource(s)
  /\ regAfter' = regAfter \ {s}
  /\ lastRoute' = NoRoute /\ lastRegister' = NoRegister
  /\ UNCHANGED <<bot, botToken, isPolling, bots, shutdownPending, reinitTo,
                 muxInit, closed, ownerPending>>
  /\ schedUnchanged

\* shutdown() called by the owner (ConnectorManager.disconnectAll)
MuxShutdownCall ==
  /\ shutdownPending < MaxPending
  /\ shutdownCall
  /\ reinitTo' = NoToken /\ regAfter' = {}
  /\ lastRoute' = NoRoute /\ lastRegister' = NoRegister
  /\ IF bot # 0 /\ isPolling
     THEN ownerPending' = ownerPending + 1 /\ UNCHANGED <<muxInit, closed>>
     ELSE muxInit' = FALSE /\ closed' = TRUE /\ UNCHANGED ownerPending
  /\ schedUnchanged

\* stopPolling settled for a pending shutdown: the one the owner called, or
\* the one initialize called without await
MuxShutdownResume(who) ==
  /\ IF who = "owner" THEN ownerPending > 0
     ELSE shutdownPending - ownerPending > 0
  /\ shutdownResume
  /\ muxInit' = FALSE
  /\ closed' = (closed \/ who = "owner")
  /\ ownerPending' = IF who = "owner" THEN ownerPending - 1 ELSE ownerPending
  /\ lastRoute' = NoRoute /\ lastRegister' = NoRegister
  /\ UNCHANGED <<reinitTo, regAfter>>
  /\ schedUnchanged

\* a polling bot emits 'message' / 'channel_post' (lines 273-282)
MuxRoute(ev) ==
  /\ \E b \in 1..Len(bots) : bots[b].polling
  /\ \E order \in MapOrders(DOMAIN registrations), throwing \in SUBSET Sources :
       LET calls == routeCalls(order, ev, registrations, throwing)
       IN lastRoute' = [seen |-> TRUE, msg |-> ev, to |-> SeqToSet(calls),
                        calls |-> calls,
                        threw |-> throwing \cap SeqToSet(calls)]
  /\ lastRegister' = NoRegister
  /\ UNCHANGED <<muxVars, reinitTo, regAfter, muxInit, closed, ownerPending>>
  /\ schedUnchanged

InitMux ==
  /\ InitBatchProcessor /\ InitApp /\ InitConnector /\ mode = "stream"
  /\ AggregationQuiet
  /\ bot = 0 /\ botToken = NoToken /\ isPolling = FALSE
  /\ bots = <<>> /\ shutdownPending = 0
  /\ registrations = EmptyMap
  /\ reinitTo = NoToken /\ regAfter = {} /\ lastRoute = NoRoute
  /\ muxInit = (bot # 0) /\ closed = FALSE /\ ownerPending = 0
  /\ lastRegister = NoRegister

NextMux ==
  \/ \E tok \in Tokens : MuxInitialize(tok)
  \/ \E s \in Sources, target \in Targets : MuxRegister(s, target)
  \/ \E s \in Sources : MuxUnregister(s)
  \/ MuxShutdownCall
  \/ \E who \in {"owner", "internal"} : MuxShutdownResume(who)
  \/ \E ev \in MuxEvents : MuxRoute(ev)

SpecMux == InitMux /\ [][NextMux]_vars

\* ------------------------------------------------ claims under SpecMux
LiveBots(tok) == {b \in 1..Len(bots) : bots[b].polling /\ bots[b].token = tok}

\* C4: at most one polling subscription is live per credential.
C4_OneSubscriptionPerToken ==
  \A tok \in Tokens : Cardinality(LiveBots(tok)) <= 1

\* C5: once no shutdown continuation is pending after initialize(t) replaced
\* another credential, the manager is live with t (bot and token set,
\* polling on) and the sources registered since are still registered.
C5_ReinitializeLeavesLive ==
  (reinitTo # NoToken /\ shutdownPending = 0) =>
    /\ bot # 0 /\ botToken = reinitTo /\ isPolling
    /\ regAfter \subseteq DOMAIN registrations

\* the chat of the event is the chat the source selects
SelectsChat(sel, msg) ==
  \/ sel.chatIdentifier = Ident(TRUE, <<msg.chat.username>>) /\ msg.chat.username # ""
  \/ sel.chatIdentifier = Ident(FALSE, <<IdString(msg.chat.id)>>)
TopicOf(msg) == IF msg.thread = NoThread THEN 1 ELSE msg.thread

C26_RegisterNeedsInitialize ==
  [][lastRegister'.seen =>
       LET s == lastRegister'.sourceId
       IN /\ ~muxInit => lastRegister'.threw
          /\ lastRegister'.threw => registrations' = registrations
          /\ ~lastRegister'.threw =>
               /\ DOMAIN registrations' = DOMAIN registrations \cup {s}
               /\ registrations'[s] = lastRegister'.sel
               /\ \A x \in DOMAIN registrations \ {s} :
                    registrations'[x] = registrations[x]]_vars

\* registerSource threw after a shutdown had completed
C26_Witness ==
  /\ lastRegister.seen /\ lastRegister.threw /\ closed
  /\ registrations = EmptyMap

\* C27: once a shutdown called by the owner has completed, and until the
\* next initialize, no bot is polling, there is no registration, bot and
\* token are unset and no callback is invoked for an upstream event; this
\* also when the manager was never initialized.
C27_ShutdownReleasesAll ==
  closed =>
    /\ \A b \in 1..Len(bots) : ~bots[b].polling
    /\ registrations = EmptyMap
    /\ bot = 0 /\ botToken = NoToken /\ ~isPolling
    /\ lastRoute.seen => lastRoute.calls = <<>>

TweetIds == 1..Len(posted)

\* BaseConnector.isDuplicate (lines 124-126)
isDuplicate_Mut(messageId, seen) == FALSE
isDuplicate(messageId, seen) == messageId \in seen

\* handleTweet (lines 314-407) up to the push on the connector's buffer;
\* TelegramConnector.handleMessage (lines 273-326) has the same steps
Accepts(tweetId) == posted[tweetId] /\ ~isDuplicate(tweetId, seenMessages)
handleTweet(tweetId) ==
  IF ~posted[tweetId]
  THEN UNCHANGED <<seenMessages, connBuffer, accepted, deliveredText,
                   dupDropped, acceptLog>>
  ELSE /\ deliveredText' = deliveredText \cup {tweetId}
       /\ IF isDuplicate(tweetId, seenMessages)
          THEN /\ dupDropped' = dupDropped \cup {tweetId}
               /\ UNCHANGED <<seenMessages, connBuffer, accepted, acceptLog>>
          ELSE /\ seenMessages' = seenMessages \cup {tweetId}
               /\ connBuffer' = Append(connBuffer, tweetId)
               /\ accepted' = accepted \cup {tweetId}
               /\ acceptLog' = Append(acceptLog, tweetId)
               /\ UNCHANGED dupDropped

\* BaseConnector.updateCursor (lines 57-81): a failed write is only logged
DbOutcomes == {"ok", "error"}
updateCursor(cursorValue, outcome) ==
  cursor' = IF outcome = "ok" THEN cursorValue ELSE cursor

connUnchanged ==
  UNCHANGED <<clockVars, bpVars, appVars, muxVars, bpHist, muxHist, appHist,
              aggVars, bkVars, lifeVars>>

\* the platform publishes a message
Post(text) ==
  /\ Len(posted) < MaxPosted
  /\ posted' = Append(posted, text)
  /\ UNCHANGED <<mode, seenMessages, connBuffer, drained, aggregated, cursor,
                 cursorWrites, pollPc, fetched, newestTweetId, crashes,
                 accepted, deliveredText, dupDropped>>
  /\ UNCHANGED <<settled, acceptLog, lastDrain>>
  /\ connUnchanged

\* stream 'data' event (line 123): the platform may deliver any published
\* message, again after a reconnect; the cursor write of lines 385-387 is
\* awaited after the push
StreamData(tweetId) ==
  /\ mode = "stream" /\ tweetId \in TweetIds
  /\ handleTweet(tweetId)
  /\ cursorWrites' = IF Accepts(tweetId) THEN Append(cursorWrites, tweetId)
                     ELSE cursorWrites
  /\ UNCHANGED <<mode, posted, drained, aggregated, cursor, pollPc, fetched,
                 newestTweetId, crashes>>
  /\ UNCHANGED <<settled, lastDrain>>
  /\ connUnchanged

StreamCursor(outcome) ==
  /\ cursorWrites # <<>>
  /\ updateCursor(Head(cursorWrites), outcome)
  /\ cursorWrites' = Tail(cursorWrites)
  /\ UNCHANGED <<mode, posted, seenMessages, connBuffer, drained, aggregated,
                 pollPc, fetched, newestTweetId, crashes, accepted,
                 deliveredText, dupDropped>>
  /\ UNCHANGED <<settled, acceptLog, lastDrain>>
  /\ connUnchanged

\* BaseConnector.getCursor (lines 86-99): null when the read fails
getCursor(outcome) == IF outcome = "ok" THEN cursor ELSE Undefined

\* the search result: the messages after since_id, newest first
RECURSIVE Search(_, _)
Search(since, newest) ==
  IF newest <= since THEN <<>> ELSE <<newest>> \o Search(since, newest - 1)

\* pollTweets (lines 206-309), from getCursor to the search result
PollTweets(outcome) ==
  /\ mode = "poll" /\ pollPc = "idle"
  /\ LET tweetData == Search(getCursor(outcome), Len(posted))
     IN /\ tweetData # <<>>
        /\ fetched' = tweetData
        /\ newestTweetId' = tweetData[1]
  /\ pollPc' = "handling"
  /\ UNCHANGED <<mode, posted, seenMessages, connBuffer, drained, aggregated,
                 cursor, cursorWrites, crashes, accepted, deliveredText,
                 dupDropped>>
  /\ UNCHANGED <<settled, acceptLog, lastDrain>>
  /\ connUnchanged

\* one turn of the loop of lines 264-280
PollHandleTweet ==
  /\ pollPc = "handling" /\ fetched # <<>>
  /\ handleTweet(Head(fetched))
  /\ fetched' = Tail(fetched)
  /\ UNCHANGED <<mode, posted, drained, aggregated, cursor, cursorWrites,
                 pollPc, newestTweetId, crashes>>
  /\ UNCHANGED <<settled, lastDrain>>
  /\ connUnchanged

\* lines 284-290: the cursor moves to the newest message of the result
PollCursor(outcome) ==
  /\ pollPc = "handling" /\ fetched = <<>>
  /\ updateCursor(newestTweetId, outcome)
  /\ pollPc' = "idle"
  /\ newestTweetId' = Undefined
  /\ UNCHANGED <<mode, posted, seenMessages, connBuffer, drained, aggregated,
                 cursorWrites, fetched, crashes, accepted, deliveredText,
                 dupDropped>>
  /\ UNCHANGED <<settled, acceptLog, lastDrain>>
  /\ connUnchanged

\* getMessages (lines 412-416; TelegramConnector lines 348-352): the copy
\* that is returned and the queue that is left
drainQueue_Mut(messageQueue_) ==
  [messages |-> messageQueue_, messageQueue |-> messageQueue_]
drainQueue(messageQueue_) ==
  [messages |-> messageQueue_, messageQueue |-> <<>>]

\* getMessages called by the collection loop; the drained messages wait in
\* the batch processor's in-memory queue
getMessages ==
  /\ LET r == drainQueue(connBuffer)
     IN /\ drained' = drained \o r.messages
        /\ connBuffer' = r.messageQueue
        /\ lastDrain' = [seen |-> TRUE, from |-> Len(drained),
                         messages |-> r.messages]
  /\ UNCHANGED <<mode, posted, seenMessages, aggregated, cursor, cursorWrites,
                 pollPc, fetched, newestTweetId, crashes, accepted,
                 deliveredText, dupDropped>>
  /\ UNCHANGED <<settled, acceptLog>>
  /\ connUnchanged

\* the batch of the drained messages is classified and its aggregation
\* effects are committed to the database
Aggregate ==
  /\ ~(SeqToSet(drained) \subseteq aggregated)
  /\ aggregated' = aggregated \cup SeqToSet(drained)
  /\ UNCHANGED <<mode, posted, seenMessages, connBuffer, drained, cursor,
                 cursorWrites, pollPc, fetched, newestTweetId, crashes,
                 accepted, deliveredText, dupDropped>>
  /\ UNCHANGED <<settled, acceptLog, lastDrain>>
  /\ connUnchanged

\* the process dies and is started again: a new connector instance, empty
\* queues; the database (cursors, aggregates) and the platform remain
Crash ==
  /\ crashes < MaxCrashes
  /\ crashes' = crashes + 1
  /\ seenMessages' = {} /\ connBuffer' = <<>> /\ drained' = <<>>
  /\ cursorWrites' = <<>> /\ pollPc' = "idle" /\ fetched' = <<>>
  /\ newestTweetId' = Undefined
  /\ deliveredText' = {} /\ dupDropped' = {}
  /\ acceptLog' = <<>> /\ lastDrain' = NoDrain
  /\ settled' = settled \cup {id \in aggregated : id <= cursor}
  /\ UNCHANGED <<mode, posted, aggregated, cursor, accepted>>
  /\ connUnchanged

InitConn ==
  /\ InitBatchProcessor /\ InitApp /\ InitConnector /\ AggregationQuiet
  /\ mode \in {"stream", "poll"}
  /\ bot = 0 /\ botToken = NoToken /\ isPolling = FALSE
  /\ bots = <<>> /\ shutdownPending = 0
  /\ registrations = EmptyMap
  /\ reinitTo = NoToken /\ regAfter = {} /\ lastRoute = NoRoute
  /\ muxInit = (bot # 0) /\ closed = FALSE /\ ownerPending = 0
  /\ lastRegister = NoRegister

NextConn ==
  \/ \E text \in BOOLEAN : Post(text)
  \/ \E tweetId \in 1..MaxPosted : StreamData(tweetId)
  \/ \E outcome \in DbOutcomes : StreamCursor(outcome)
  \/ \E outcome \in DbOutcomes : PollTweets(outcome)
  \/ PollHandleTweet
  \/ \E outcome \in DbOutcomes : PollCursor(outcome)
  \/ getMessages
  \/ Aggregate
  \/ Crash

SpecConn == InitConn /\ [][NextConn]_vars

\* ------------------------------------------------ claims under SpecConn
Occ(id, seq) == Cardinality({i \in 1..Len(seq) : seq[i] = id})

\* C3: for one connector instance every identifier occurs at most once in
\* the drained outputs and the buffer together: exactly once when a delivery
\* carrying it (and a text) has been handled, the first such delivery being
\* the one appended and all later ones dropped.
C3_AcceptedAtMostOnce ==
  \A id \in 1..MaxPosted :
    /\ Occ(id, drained \o connBuffer) = IF id \in deliveredText THEN 1 ELSE 0
    /\ id \in dupDropped => id \in deliveredText

\* a message was drained and a later delivery of it was dropped
C3_Witness ==
  \E id \in dupDropped : Occ(id, drained) = 1 /\ Occ(id, connBuffer) = 0

\* C10: every message a connector accepted is aggregated, or still held by
\* the running process, or after the durable cursor (so fetched again).
C10_NoAcceptedMessageLost ==
  \A id \in accepted :
    \/ id \in aggregated
    \/ id \in SeqToSet(drained \o connBuffer)
    \/ id > cursor

\* ------------------------------------------------ SpecAgg: aggregation
\* exact rationals [n, d], d > 0, in lowest terms, for the REAL columns and
\* JavaScript numbers (floating-point rounding error is left out)
Abs(x) == IF x < 0 THEN -x ELSE x
RECURSIVE Gcd(_, _)
Gcd(a, b) == IF b = 0 THEN a ELSE Gcd(b, a % b)
Rat(n, d) ==
  LET g == Gcd(Abs(n), Abs(d))
      sg == IF d < 0 THEN -1 ELSE 1
  IN [n |-> sg * (n \div g), d |-> sg * (d \div g)]
RatOf(i) == [n |-> i, d |-> 1]
RatAdd(x, y) == Rat(x.n * y.d + y.n * x.d, x.d * y.d)
RatMul(x, y) == Rat(x.n * y.n, x.d * y.d)
RatDiv(x, y) == Rat(x.n * y.d, x.d * y.n)
\* Math.round: the nearest integer, halves upwards
MathRound(x) == (2 * x.n + x.d) \div (2 * x.d)

\* tag histograms are JSON objects: functions on a set of tags
AllTags == {"optimism", "fear", "joyous"}
NoTags == [t \in {} |-> 0]
TagOr0(tags, t) == IF t \in DOMAIN tags THEN tags[t] ELSE 0

\* `a || b` on numbers: 0 (and undefined, written 0) is falsy
OrElse(a, b) == IF a # 0 THEN a ELSE b

\* OpenRouterClient.parseResponse (part_003's caller), lines 221-292;
\* parsed is the JSON of the classifier, messageCount = messages.length
RatLess(x, y) == x.n * y.d < y.n * x.d
Clamp_Mut(x) == IF RatLess(x, RatOf(-100)) THEN RatOf(-100) ELSE x
Clamp(x) == IF RatLess(x, RatOf(-100)) THEN RatOf(-100)
            ELSE IF RatLess(RatOf(100), x) THEN RatOf(100) ELSE x
TagAllowed_Mut(tag, enabled) == TRUE
TagAllowed(tag, enabled) == tag \in enabled
FilterTags(tags, enabled) ==
  [t \in {x \in DOMAIN tags : TagAllowed(x, enabled)} |-> tags[t]]

\* String.prototype.includes for a one-character needle
includes(str, ch) == \E i \in 1..Len(str) : SubSeq(str, i, i) = ch
\* a message of the batch, as far as parseResponse reads it
Author(platform, id, username, isContext) ==
  [platform |-> platform, author |-> [id |-> id, username |-> username],
   isContext |-> isContext]
fullId(msg) == msg.platform \o ":" \o msg.author.id
\* lines 254-259: username -> platform:id over the messages that are not
\* context, a later message overwriting an earlier one
usernameToId(messages) ==
  LET own == {i \in DOMAIN messages : ~messages[i].isContext}
      last(u) == CHOOSE i \in own :
                   /\ messages[i].author.username = u
                   /\ \A j \in own : messages[j].author.username = u => j <= i
  IN [u \in {messages[i].author.username : i \in own} |->
        fullId(messages[last(u)])]
\* lines 270-276
correctedUserId(user_id, map) ==
  IF ~includes(user_id, ":")
  THEN IF user_id \in DOMAIN map THEN map[user_id] ELSE user_id
  ELSE user_id

parseResponse(parsed, messages, messageCount, enabled) ==
  [sentimentScore |-> MathRound(Clamp(parsed.batch_sentiment)),
   messageCount |-> OrElse(parsed.message_count, messageCount),
   authorCount |-> OrElse(parsed.author_count, Len(parsed.per_user)),
   tagCounts |-> FilterTags(parsed.tag_counts, enabled),
   perUser |-> [i \in DOMAIN parsed.per_user |->
                  [user_id |-> correctedUserId(parsed.per_user[i].user_id,
                                               usernameToId(messages)),
                   message_count |-> parsed.per_user[i].message_count,
                   sentiment_avg |-> MathRound(parsed.per_user[i].sentiment_avg),
                   tags |-> FilterTags(parsed.per_user[i].tags, enabled)]]]

\* groupBySource (lines 68-79): the sources with messages in the batch
groupBySource(messages) == {s \in DOMAIN messages : messages[s].count > 0}
BatchLength(messages) ==
  LET RECURSIVE Sum(_)
      Sum(S) == IF S = {} THEN 0
                ELSE LET s == CHOOSE x \in S : TRUE
                     IN messages[s].count + Sum(S \ {s})
  IN Sum(DOMAIN messages)

\* a bucket row; present = FALSE while the key has no row
NoRow == [present |-> FALSE, sentiment_score |-> RatOf(0), message_count |-> 0,
          author_count |-> 0, tag_counts |-> NoTags]
Max(a, b) == IF a >= b THEN a ELSE b

\* SQLite json_patch(target, patch), RFC 7396: every key of the patch
\* replaces the key of the target
json_patch(target, patch) ==
  [t \in DOMAIN target \cup DOMAIN patch |->
     IF t \in DOMAIN patch THEN patch[t] ELSE target[t]]

\* INSERT ... ON CONFLICT DO UPDATE of lines 104-131 and 173-204; the right
\* hand sides of SET read the row as it was
Upsert(row, c) ==
  IF ~row.present
  THEN [present |-> TRUE, sentiment_score |-> c.sentiment,
        message_count |-> c.message_count, author_count |-> c.author_count,
        tag_counts |-> c.tag_counts]
  ELSE [present |-> TRUE,
        sentiment_score |->
          RatDiv(RatAdd(RatMul(row.sentiment_score, RatOf(row.message_count)),
                        RatMul(c.sentiment, RatOf(c.message_count))),
                 RatOf(row.message_count + c.message_count)),
        message_count |-> row.message_count + c.message_count,
        author_count |-> Max(row.author_count, c.author_count),
        tag_counts |-> json_patch(row.tag_counts, c.tag_counts)]

\* createSourceAggregates (lines 83-99): the contribution of one source
SourceContribution(sourceId, messages, result) ==
  LET proportion == Rat(messages[sourceId].count, result.messageCount)
  IN [sentiment |-> RatMul(RatOf(result.sentimentScore), proportion),
      message_count |-> messages[sourceId].count,
      author_count |-> messages[sourceId].authors,
      tag_counts |-> [t \in DOMAIN result.tagCounts |->
                        MathRound(RatMul(RatOf(result.tagCounts[t]), proportion))]]

\* sum of f over a finite set, in rationals
RECURSIVE RatSum(_, _)
RatSum(f, S) ==
  IF S = {} THEN RatOf(0)
  ELSE LET x == CHOOSE y \in S : TRUE IN RatAdd(f[x], RatSum(f, S \ {x}))

\* createTrackerAggregates (lines 137-167): the weighted sentiment
finalSentiment_Mut(messages, result, weights) ==
  LET bySource == groupBySource(messages)
      proportion == [s \in bySource |->
                       Rat(messages[s].count, BatchLength(messages))]
  IN RatDiv(RatSum([s \in bySource |->
                      RatMul(RatOf(result.sentimentScore), proportion[s])],
                   bySource),
            RatSum([s \in bySource |->
                      RatMul(Rat(OrElse(weights[s], 10), 10), proportion[s])],
                   bySource))
finalSentiment(messages, result, weights) ==
  LET bySource == groupBySource(messages)
      \* sourceWeights[sourceId] || 1.0, weights in tenths
      weight == [s \in bySource |-> Rat(OrElse(weights[s], 10), 10)]
      proportion == [s \in bySource |->
                       Rat(messages[s].count, BatchLength(messages))]
      weightedSentiment ==
        RatSum([s \in bySource |->
                  RatMul(RatMul(RatOf(result.sentimentScore), proportion[s]),
                         weight[s])], bySource)
      totalWeight ==
        RatSum([s \in bySource |-> RatMul(weight[s], proportion[s])], bySource)
  IN IF RatLess(RatOf(0), totalWeight)
     THEN RatDiv(weightedSentiment, totalWeight)
     ELSE RatOf(result.sentimentScore)

\* createTrackerAggregates lines 146-153: the total weight of the batch
totalWeight(messages, weights) ==
  LET bySource == groupBySource(messages)
  IN RatSum([s \in bySource |->
               RatMul(Rat(OrElse(weights[s], 10), 10),
                      Rat(messages[s].count, BatchLength(messages)))],
            bySource)

\* lines 157-167: the per-source breakdown stored in the column
\* source_contributions, one entry per source of the batch
sourceContributions(messages, result, weights) ==
  [s \in groupBySource(messages) |->
     [source_id |-> s,
      weight |-> Rat(OrElse(weights[s], 10), 10),
      sentiment |-> result.sentimentScore,
      message_count |-> messages[s].count,
      contribution |-> Rat(messages[s].count, BatchLength(messages))]]

\* BatchProcessor.logBatch (lines 208-233): one more row in llm_batch_log
logBatch(log, id, success) ==
  Append(log, [batch |-> id, success |-> success])

\* lines 173-204: the contribution of the batch to the tracker row
TrackerContribution(messages, result, weights) ==
  [sentiment |-> finalSentiment(messages, result, weights),
   message_count |-> result.messageCount,
   author_count |-> result.authorCount,
   tag_counts |-> result.tagCounts]

\* createUserAggregates (lines 210-276), one turn of its loop
UserIds == {"telegram:1", "telegram:2"}
NoUserAgg == [present |-> FALSE, total_messages |-> 0, avg_sentiment |-> 0,
              tag_counts |-> NoTags]
mergedTags_Mut(existingTags, tags) == json_patch(existingTags, tags)
mergedTags(existingTags, tags) ==
  [t \in DOMAIN existingTags \cup DOMAIN tags |->
     TagOr0(existingTags, t) + TagOr0(tags, t)]
UserStep(existing, user) ==
  IF existing.present
  THEN LET newTotalMessages == existing.total_messages + user.message_count
       IN [present |-> TRUE,
           total_messages |-> newTotalMessages,
           avg_sentiment |->
             MathRound(Rat(existing.avg_sentiment * existing.total_messages
                             + user.sentiment_avg * user.message_count,
                           newTotalMessages)),
           tag_counts |-> mergedTags(existing.tag_counts, user.tags)]
  ELSE [present |-> TRUE, total_messages |-> user.message_count,
        avg_sentiment |-> user.sentiment_avg, tag_counts |-> user.tags]

RECURSIVE createUserAggregates(_, _)
createUserAggregates(agg, perUser) ==
  IF perUser = <<>> THEN agg
  ELSE LET user == Head(perUser)
       IN createUserAggregates(
            [agg EXCEPT ![user.user_id] = UserStep(agg[user.user_id], user)],
            Tail(perUser))

\* ensureUserExists (lines 281-310): the users table gains the author
ensureUserExists(us, perUser) == us \cup {perUser[i].user_id : i \in DOMAIN perUser}

\* inputs: classifier answers, batches, tracker configurations
T1 == ("optimism" :> 2 @@ "joyous" :> 1)
T2 == ("optimism" :> 1 @@ "fear" :> 3)
Summary(u, c, avg, tags) ==
  [user_id |-> u, message_count |-> c, sentiment_avg |-> avg, tags |-> tags]
PerUsers ==
  {<<Summary("telegram:1", 1, RatOf(40), T1)>>,
   <<Summary("telegram:1", 2, Rat(-31, 2), T2)>>,
   <<Summary("telegram:2", 1, RatOf(40), T2)>>}
ParsedResponses ==
  {[batch_sentiment |-> k[1], tag_counts |-> k[2], message_count |-> mc,
    author_count |-> 0, per_user |-> pu] :
     k \in {<<RatOf(40), T1>>, <<Rat(-41, 2), T2>>}, mc \in {0, 5},
     pu \in PerUsers}
\* the authors of the batches of SpecAgg
AggAuthors == <<Author("telegram", "1", "alice", FALSE),
                Author("telegram", "2", "bob", FALSE)>>
MessageBatches ==
  {("s1" :> [count |-> 6, authors |-> 3] @@ "s2" :> [count |-> 4, authors |-> 2]),
   ("s1" :> [count |-> 1, authors |-> 1] @@ "s2" :> [count |-> 0, authors |-> 0])}
WeightChoices == {("s1" :> 10 @@ "s2" :> 5), ("s1" :> 0 @@ "s2" :> 10)}
EnabledChoices == {{"optimism", "fear"}, {"fear"}}

aggUnchanged ==
  UNCHANGED <<clockVars, bpVars, appVars, muxVars, bpHist, muxHist, appHist,
              connVars, bkVars, parseVars>>

\* BatchProcessor.processBatch lines 153-164: the classifier answers and
\* parseResponse builds the result
AnalyzeBatch(parsed, messages) ==
  /\ aggPc = "idle" /\ batches < MaxBatches
  /\ batches' = batches + 1
  /\ aggBatch' = messages
  /\ llmResult' = parseResponse(parsed, AggAuthors, BatchLength(messages),
                                enabledTags)
  /\ llmRaw' = parsed.tag_counts
  /\ aggPc' = "source"
  /\ batchLog' = logBatch(batchLog, batches + 1, TRUE)
  /\ UNCHANGED <<enabledTags, sourceWeights, srcRow, trkRow, userAgg, users,
                 contribs, userHist, sourceContribs, aggDone>>
  /\ aggUnchanged

\* processLLMResult lines 46-49: createSourceAggregates for every source
CreateSourceAggregates ==
  /\ aggPc = "source"
  /\ srcRow' = [s \in Sources |->
                  IF s \in groupBySource(aggBatch)
                  THEN Upsert(srcRow[s], SourceContribution(s, aggBatch, llmResult))
                  ELSE srcRow[s]]
  /\ aggPc' = "tracker"
  /\ UNCHANGED <<enabledTags, sourceWeights, aggBatch, llmResult, trkRow,
                 userAgg, users, batches, contribs, userHist, llmRaw,
                 sourceContribs, batchLog, aggDone>>
  /\ aggUnchanged

\* processLLMResult line 52
CreateTrackerAggregates ==
  /\ aggPc = "tracker"
  /\ LET c == TrackerContribution(aggBatch, llmResult, sourceWeights)
     IN /\ trkRow' = Upsert(trkRow, c)
        /\ contribs' = Append(contribs, c)
  /\ sourceContribs' = sourceContributions(aggBatch, llmResult, sourceWeights)
  /\ aggPc' = "user"
  /\ UNCHANGED <<enabledTags, sourceWeights, aggBatch, llmResult, srcRow,
                 userAgg, users, batches, userHist, llmRaw, batchLog, aggDone>>
  /\ aggUnchanged

\* processLLMResult line 55
CreateUserAggregates ==
  /\ aggPc = "user"
  /\ users' = ensureUserExists(users, llmResult.perUser)
  /\ userAgg' = createUserAggregates(userAgg, llmResult.perUser)
  /\ userHist' = [u \in UserIds |->
                    userHist[u] \o SelectSeq(llmResult.perUser,
                                             LAMBDA x : x.user_id = u)]
  /\ aggPc' = "idle"
  /\ aggDone' = aggDone \cup {batches}
  /\ UNCHANGED <<enabledTags, sourceWeights, aggBatch, llmResult, srcRow,
                 trkRow, batches, contribs, llmRaw, sourceContribs, batchLog>>
  /\ aggUnchanged

InitAgg ==
  /\ InitBatchProcessor /\ InitApp /\ InitConnector /\ mode = "stream"
  /\ bot = 0 /\ botToken = NoToken /\ isPolling = FALSE
  /\ bots = <<>> /\ shutdownPending = 0
  /\ registrations = EmptyMap
  /\ reinitTo = NoToken /\ regAfter = {} /\ lastRoute = NoRoute
  /\ muxInit = (bot # 0) /\ closed = FALSE /\ ownerPending = 0
  /\ lastRegister = NoRegister
  /\ InitAggregation
  /\ bkTimestamp = Timestamp(0, 0, 0, 0) /\ bkBucket = "1min"
  /\ bkResult = NoBucket
  /\ enabledTags \in EnabledChoices
  /\ sourceWeights \in WeightChoices

NextAgg ==
  \/ \E parsed \in ParsedResponses, messages \in MessageBatches :
       AnalyzeBatch(parsed, messages)
  \/ CreateSourceAggregates
  \/ CreateTrackerAggregates
  \/ CreateUserAggregates

SpecAgg == InitAgg /\ [][NextAgg]_vars

\* ------------------------------------------------ SpecLog: the batch log
\* BatchProcessor.processBatch lines 161 and 179-183: the classifier call
\* throws, the catch block logs the batch as failed
AnalyzeFails ==
  /\ aggPc = "idle" /\ batches < MaxBatches
  /\ batches' = batches + 1
  /\ batchLog' = logBatch(batchLog, batches + 1, FALSE)
  /\ UNCHANGED <<enabledTags, sourceWeights, aggPc, aggBatch, llmResult,
                 srcRow, trkRow, userAgg, users, contribs, userHist, llmRaw,
                 sourceContribs, aggDone>>
  /\ aggUnchanged

\* a database write of the step about to run is rejected: processLLMResult
\* logs and rethrows (lines 58-61), processBatch catches and logs the batch
\* as failed (lines 179-183); the rows written so far stay
AggregationFails ==
  /\ aggPc \in {"source", "tracker", "user"}
  /\ batchLog' = logBatch(batchLog, batches, FALSE)
  /\ aggPc' = "idle"
  /\ UNCHANGED <<enabledTags, sourceWeights, aggBatch, llmResult, srcRow,
                 trkRow, userAgg, users, batches, contribs, userHist, llmRaw,
                 sourceContribs, aggDone>>
  /\ aggUnchanged

NextLog ==
  \/ \E parsed \in ParsedResponses, messages \in MessageBatches :
       AnalyzeBatch(parsed, messages)
  \/ AnalyzeFails
  \/ CreateSourceAggregates
  \/ CreateTrackerAggregates
  \/ CreateUserAggregates
  \/ AggregationFails

SpecLog == InitAgg /\ [][NextLog]_vars

\* ------------------------------------------------ claims under SpecLog
\* C30: a batch has a success entry in the batch log only once all its
\* aggregation steps have completed, and no batch has both a success entry
\* and a failure entry.
C30_SuccessAfterAggregation ==
  /\ \A i \in DOMAIN batchLog :
       batchLog[i].success => batchLog[i].batch \in aggDone
  /\ \A i, j \in DOMAIN batchLog :
       batchLog[i].batch = batchLog[j].batch
         => batchLog[i].success = batchLog[j].success

\* ------------------------------------------------ claims under SpecAgg
\* the merge the documentation describes: weighted mean, sums, max of the
\* author counts, tag counts added tag by tag
SumTags(a, b) ==
  [t \in DOMAIN a \cup DOMAIN b |-> TagOr0(a, t) + TagOr0(b, t)]
DocMerge(row, c) ==
  IF ~row.present
  THEN [present |-> TRUE, sentiment_score |-> c.sentiment,
        message_count |-> c.message_count, author_count |-> c.author_count,
        tag_counts |-> c.tag_counts]
  ELSE [present |-> TRUE,
        sentiment_score |->
          Rat(row.sentiment_score.n * row.message_count * c.sentiment.d
                + c.sentiment.n * c.message_count * row.sentiment_score.d,
              row.sentiment_score.d * c.sentiment.d
                * (row.message_count + c.message_count)),
        message_count |-> row.message_count + c.message_count,
        author_count |-> Max(row.author_count, c.author_count),
        tag_counts |-> SumTags(row.tag_counts, c.tag_counts)]
RECURSIVE DocFold(_, _)
DocFold(row, cs) == IF cs = <<>> THEN row ELSE DocFold(DocMerge(row, Head(cs)), Tail(cs))

\* C12: after two contributions A then B the tracker row equals the row
\* that B then A gives, in message count, in every tag count and in
\* sentiment.
C12_MergeOrderIndependent ==
  Len(contribs) = 2 =>
    LET ba == Upsert(Upsert(NoRow, contribs[2]), contribs[1])
    IN /\ trkRow.message_count = ba.message_count
       /\ trkRow.sentiment_score = ba.sentiment_score
       /\ trkRow.tag_counts = ba.tag_counts

\* C13: the tracker row is the documented merge of its contributions: the
\* first inserts its values, each later one merges by weighted mean, sum
\* of message counts, max of author counts and tag counts added per tag.
C13_UpsertIsDocumentedMerge ==
  trkRow = DocFold(NoRow, contribs)

\* the documented weighted subject sentiment, with the weights as stored
DocWeighted(messages, S, weights) ==
  LET present == {s \in DOMAIN messages : messages[s].count > 0}
      total == BatchLength(messages)
      num == RatSum([s \in present |->
                       Rat(S * messages[s].count * weights[s], total * 10)],
                    present)
      den == RatSum([s \in present |->
                       Rat(messages[s].count * weights[s], total * 10)], present)
  IN IF den.n = 0 THEN RatOf(S) ELSE RatDiv(num, den)

\* C14: the sentiment contributed to the tracker row is the documented
\* weighted sentiment (the classifier's when the weights sum to zero); 40
\* for sources of weight 1.0 and 0.5 with 6 and 4 of 10 messages and S = 40.
C14_WeightedSentiment ==
  (aggPc \in {"user", "idle"} /\ contribs # <<>>) =>
    LET c == contribs[Len(contribs)]
    IN /\ c.sentiment = DocWeighted(aggBatch, llmResult.sentimentScore, sourceWeights)
       /\ (/\ aggBatch["s1"].count = 6 /\ aggBatch["s2"].count = 4
           /\ sourceWeights["s1"] = 10 /\ sourceWeights["s2"] = 5
           /\ llmResult.sentimentScore = 40) => c.sentiment = RatOf(40)

\* the example of the documentation has been aggregated
C14_Witness ==
  /\ aggPc = "user" /\ Len(contribs) = 1
  /\ aggBatch["s1"].count = 6 /\ aggBatch["s2"].count = 4
  /\ sourceWeights["s1"] = 10 /\ sourceWeights["s2"] = 5
  /\ llmResult.sentimentScore = 40 /\ trkRow.sentiment_score = RatOf(40)

\* C15: the first contribution of each source of a batch carries the
\* classifier sentiment and the tag counts scaled by the source's share of
\* the batch's messages, and the shares of a batch add up to 1.
C15_ProportionalShare ==
  (aggPc = "tracker" /\ batches = 1) =>
    LET total == BatchLength(aggBatch)
        present == groupBySource(aggBatch)
    IN /\ \A s \in present :
            /\ srcRow[s].sentiment_score =
                 Rat(llmResult.sentimentScore * aggBatch[s].count, total)
            /\ \A t \in DOMAIN llmResult.tagCounts :
                 srcRow[s].tag_counts[t] =
                   MathRound(Rat(llmResult.tagCounts[t] * aggBatch[s].count, total))
       /\ RatSum([s \in present |->
                    Rat(aggBatch[s].count, llmResult.messageCount)], present)
            = RatOf(1)

\* the documented fold of author summaries
RECURSIVE DocUserFold(_, _)
DocUserFold(acc, hist) ==
  IF hist = <<>> THEN acc
  ELSE LET u == Head(hist)
           next ==
             IF ~acc.present
             THEN [present |-> TRUE, total_messages |-> u.message_count,
                   avg_sentiment |-> u.sentiment_avg, tag_counts |-> u.tags]
             ELSE [present |-> TRUE,
                   total_messages |-> acc.total_messages + u.message_count,
                   avg_sentiment |->
                     MathRound(Rat(acc.avg_sentiment * acc.total_messages
                                     + u.sentiment_avg * u.message_count,
                                   acc.total_messages + u.message_count)),
                   tag_counts |-> SumTags(acc.tag_counts, u.tags)]
       IN DocUserFold(next, Tail(hist))

\* C16: each author aggregate is the fold of the author's summaries: sum
\* of message counts, tag counts added per tag, average re-rounded at each
\* step; the first summary creates the author and the aggregate.
C16_AuthorFold ==
  aggPc = "idle" =>
    \A u \in UserIds :
      /\ userAgg[u] = DocUserFold(NoUserAgg, userHist[u])
      /\ (u \in users) <=> userHist[u] # <<>>
      /\ userAgg[u].present <=> userHist[u] # <<>>

\* two summaries of one author were folded, the average was re-rounded
C16_Witness ==
  /\ aggPc = "idle" /\ Len(userHist["telegram:1"]) = 2
  /\ "optimism" \in enabledTags /\ "telegram:1" \in users
  /\ userHist["telegram:1"][1].sentiment_avg = 40
  /\ userHist["telegram:1"][2].sentiment_avg = -15
  /\ userAgg["telegram:1"].avg_sentiment = 3
  /\ userAgg["telegram:1"].tag_counts["optimism"] = 3

\* C20: every tag of the result and of every aggregate is enabled.
C20_OnlyEnabledTags ==
  /\ DOMAIN llmResult.tagCounts \subseteq enabledTags
  /\ \A i \in DOMAIN llmResult.perUser :
       DOMAIN llmResult.perUser[i].tags \subseteq enabledTags
  /\ DOMAIN trkRow.tag_counts \subseteq enabledTags
  /\ \A s \in Sources : DOMAIN srcRow[s].tag_counts \subseteq enabledTags
  /\ \A u \in UserIds : DOMAIN userAgg[u].tag_counts \subseteq enabledTags

\* an answer with the tag "joyous" was parsed and aggregated to the end
C20_Witness ==
  /\ "joyous" \in DOMAIN llmRaw /\ "joyous" \notin enabledTags
  /\ aggPc = "idle" /\ batches >= 1 /\ trkRow.present
  /\ "optimism" \in DOMAIN trkRow.tag_counts

\* C29: once createTrackerAggregates has run, the contribution entry of
\* every source of the batch records the configured weight (0 included),
\* the source's share of the batch and its message count; and a batch
\* whose only source has weight 0 has total weight zero and the raw
\* classifier sentiment as its tracker sentiment.
C29_WeightAsConfigured ==
  aggPc = "user" =>
    LET bySource == groupBySource(aggBatch)
    IN /\ DOMAIN sourceContribs = bySource
       /\ \A s \in bySource :
            /\ sourceContribs[s].weight = Rat(sourceWeights[s], 10)
            /\ sourceContribs[s].message_count = aggBatch[s].count
            /\ sourceContribs[s].contribution =
                 Rat(aggBatch[s].count, BatchLength(aggBatch))
       /\ (\E s \in Sources : bySource = {s} /\ sourceWeights[s] = 0) =>
            /\ totalWeight(aggBatch, sourceWeights) = RatOf(0)
            /\ contribs[Len(contribs)].sentiment =
                 RatOf(llmResult.sentimentScore)

\* C39: when no batch is being aggregated, the message count of the
\* tracker row equals the sum of the message counts of the rows of the
\* tracker's sources for the same bucket.
C39_TrackerCountIsSourceSum ==
  aggPc = "idle" =>
    trkRow.message_count =
      RatSum([s \in Sources |-> RatOf(srcRow[s].message_count)], Sources).n

\* ------------------------------------------------ SpecParse: the gateway
\* what the classifier may answer: sentiments below, in and above the range,
\* whole and fractional
Sentiments ==
  {RatOf(-250), Rat(-201, 2), RatOf(-100), Rat(-199, 2), Rat(-1, 2), RatOf(0),
   Rat(149, 10), Rat(199, 2), RatOf(100), Rat(201, 2), RatOf(1000)}
\* a per_user entry: the identifier and the handle the classifier returned
Returned(user_id, username) ==
  [user_id |-> user_id, username |-> username, message_count |-> 1,
   sentiment_avg |-> RatOf(10), tags |-> T2]
ReturnedUsers ==
  {Returned("telegram:1", "alice"), Returned("alice", "alice"),
   Returned("1", "alice"), Returned("carol", "carol")}
ReturnedPerUser ==
  {<<u>> : u \in ReturnedUsers}
    \cup {q \in ReturnedUsers \X ReturnedUsers : q[1] # q[2]}
AuthorBatches ==
  {<<Author("telegram", "1", "alice", FALSE),
     Author("telegram", "2", "bob", FALSE)>>,
   <<Author("telegram", "1", "alice", FALSE),
     Author("twitter", "9", "alice", FALSE)>>,
   <<Author("telegram", "1", "alice", TRUE),
     Author("telegram", "2", "bob", FALSE)>>}
Responses ==
  {[batch_sentiment |-> v, tag_counts |-> T1, message_count |-> mc,
    author_count |-> 0, per_user |-> pu] :
     v \in Sentiments, mc \in {0, 5}, pu \in ReturnedPerUser}

\* OpenRouterClient.analyzeBatch: the answer arrives and parseResponse
\* (lines 212-292) builds the classification result
ParseResponse(parsed, messages) ==
  /\ response' = parsed
  /\ batchAuthors' = messages
  /\ parseOut' = [done |-> TRUE,
                  result |-> parseResponse(parsed, messages, Len(messages),
                                           enabledTags)]
  /\ UNCHANGED <<clockVars, bpVars, appVars, muxVars, bpHist, muxHist, appHist,
                 connVars, bkVars>>
  /\ UNCHANGED <<enabledTags, sourceWeights, aggPc, aggBatch, llmResult, srcRow,
                 trkRow, userAgg, users, batches, contribs, userHist, llmRaw,
                 sourceContribs, batchLog, aggDone>>

NextParse ==
  \E parsed \in Responses, messages \in AuthorBatches :
    ParseResponse(parsed, messages)

SpecParse == InitAgg /\ [][NextParse]_vars

\* ------------------------------------------------ claims under SpecParse
\* C31: the sentimentScore of every classification result is an integer in
\* -100..100: a value below the range gives -100, a value above it gives
\* 100, a value inside it gives the nearest integer.
C31_SentimentInRange ==
  parseOut.done =>
    LET x == response.batch_sentiment
        score == parseOut.result.sentimentScore
    IN /\ score \in -100..100
       /\ RatLess(x, RatOf(-100)) => score = -100
       /\ RatLess(RatOf(100), x) => score = 100
       /\ (~RatLess(x, RatOf(-100)) /\ ~RatLess(RatOf(100), x))
            => Abs(2 * (score * x.d - x.n)) <= x.d

\* a fractional answer above the range was clamped
C31_Witness ==
  /\ parseOut.done /\ response.batch_sentiment = Rat(201, 2)
  /\ parseOut.result.sentimentScore = 100

\* the authors of the batch (context messages apart) with a given handle
AuthorsNamed(username) ==
  {i \in DOMAIN batchAuthors :
     ~batchAuthors[i].isContext /\ batchAuthors[i].author.username = username}

\* C32: for every returned author whose identifier is not in platform:id
\* form and whose returned handle is the handle of an author of the batch,
\* the identifier in the result is the platform:id of a batch author with
\* that handle.
C32_HandleRemapped ==
  parseOut.done =>
    \A i \in DOMAIN response.per_user :
      LET u == response.per_user[i]
      IN (~includes(u.user_id, ":") /\ AuthorsNamed(u.username) # {})
           => \E a \in AuthorsNamed(u.username) :
                parseOut.result.perUser[i].user_id = fullId(batchAuthors[a])

\* ------------------------------------------------ SpecBucket: getTimeBucket
\* times are seconds of local time since January 1st 00:00:00 of the
\* timestamp's year; the local time zone has no daylight saving shift
Seconds(t) == t.day * 86400 + t.hours * 3600 + t.minutes * 60 + t.seconds

\* bucket.match(/^(\d+)(min|hour|day)$/) and parseInt, lines 338-344
Buckets == {"1min", "5min", "7min", "90min", "1hour", "5hour", "8hour",
            "1day", "3day", "7day"}
BucketMatch(bucket) ==
  CASE bucket = "1min" -> [num |-> 1, unit |-> "min"]
    [] bucket = "5min" -> [num |-> 5, unit |-> "min"]
    [] bucket = "7min" -> [num |-> 7, unit |-> "min"]
    [] bucket = "90min" -> [num |-> 90, unit |-> "min"]
    [] bucket = "1hour" -> [num |-> 1, unit |-> "hour"]
    [] bucket = "5hour" -> [num |-> 5, unit |-> "hour"]
    [] bucket = "8hour" -> [num |-> 8, unit |-> "hour"]
    [] bucket = "1day" -> [num |-> 1, unit |-> "day"]
    [] bucket = "3day" -> [num |-> 3, unit |-> "day"]
    [] bucket = "7day" -> [num |-> 7, unit |-> "day"]

\* Math.floor(x / num) * num, lines 349, 355 and 363
FloorTo_Mut(x, num) == x
FloorTo(x, num) == (x \div num) * num

\* getTimeBucket (lines 333-375)
getTimeBucket(timestamp, bucket) ==
  LET num == BucketMatch(bucket).num
      unit == BucketMatch(bucket).unit
  IN CASE unit = "min" ->
            LET mins == FloorTo(timestamp.minutes, num)
                bucketStart == timestamp.day * 86400 + timestamp.hours * 3600
                                 + mins * 60
            IN [done |-> TRUE, bucketStart |-> bucketStart,
                bucketEnd |-> bucketStart + num * 60]
       [] unit = "hour" ->
            LET hours == FloorTo(timestamp.hours, num)
                bucketStart == timestamp.day * 86400 + hours * 3600
            IN [done |-> TRUE, bucketStart |-> bucketStart,
                bucketEnd |-> bucketStart + num * 3600]
       [] unit = "day" ->
            \* new Date(year, 0, 0) is December 31st of the year before
            LET dayOfYear == (Seconds(timestamp) + 86400) \div 86400
                bucketDayStart == FloorTo(dayOfYear, num)
                bucketStart == (bucketDayStart - 1) * 86400
            IN [done |-> TRUE, bucketStart |-> bucketStart,
                bucketEnd |-> bucketStart + num * 86400]

Timestamps ==
  {Timestamp(d, h, m, sec) : d \in {0, 2, 5, 6, 364}, h \in {0, 12, 23},
                             m \in {0, 7, 59}, sec \in {0, 30}}

GetTimeBucket ==
  /\ ~bkResult.done
  /\ bkResult' = getTimeBucket(bkTimestamp, bkBucket)
  /\ UNCHANGED <<bkTimestamp, bkBucket>>
  /\ UNCHANGED <<clockVars, bpVars, appVars, muxVars, bpHist, muxHist, appHist,
                 connVars, aggVars>>

InitBucket ==
  /\ InitBatchProcessor /\ InitApp /\ InitConnector /\ mode = "stream"
  /\ bot = 0 /\ botToken = NoToken /\ isPolling = FALSE
  /\ bots = <<>> /\ shutdownPending = 0
  /\ registrations = EmptyMap
  /\ reinitTo = NoToken /\ regAfter = {} /\ lastRoute = NoRoute
  /\ muxInit = (bot # 0) /\ closed = FALSE /\ ownerPending = 0
  /\ lastRegister = NoRegister
  /\ InitAggregation
  /\ enabledTags = {"optimism", "fear"}
  /\ sourceWeights = [s \in Sources |-> 10]
  /\ bkTimestamp \in Timestamps /\ bkBucket \in Buckets
  /\ bkResult = NoBucket

NextBucket == GetTimeBucket

SpecBucket == InitBucket /\ [][NextBucket]_vars

\* ------------------------------------------------ claims under SpecBucket
Width(bucket) ==
  LET b == BucketMatch(bucket)
  IN b.num * (IF b.unit = "min" THEN 60 ELSE IF b.unit = "hour" THEN 3600 ELSE 86400)

\* C17: for a min (hour) bucket of N the start is the hour (day) of the
\* timestamp plus the largest multiple of N minutes (hours) not after it,
\* the end is the start plus N minutes (hours), and start <= t < end;
\* 5min at 12:07:30 gives 12:05:00 to 12:10:00.
C17_MinuteHourBucket ==
  (bkResult.done /\ BucketMatch(bkBucket).unit \in {"min", "hour"}) =>
    LET b == BucketMatch(bkBucket)
        t == bkTimestamp
        base == IF b.unit = "min" THEN t.day * 86400 + t.hours * 3600
                ELSE t.day * 86400
        step == IF b.unit = "min" THEN 60 ELSE 3600
        field == IF b.unit = "min" THEN t.minutes ELSE t.hours
    IN /\ \E k \in 0..field :
            /\ k * b.num <= field /\ field < (k + 1) * b.num
            /\ bkResult.bucketStart = base + k * b.num * step
       /\ bkResult.bucketEnd = bkResult.bucketStart + Width(bkBucket)
       /\ bkResult.bucketStart <= Seconds(t)
       /\ Seconds(t) < bkResult.bucketEnd
       /\ (bkBucket = "5min" /\ t.hours = 12 /\ t.minutes = 7 /\ t.seconds = 30) =>
            /\ bkResult.bucketStart = t.day * 86400 + 12 * 3600 + 5 * 60
            /\ bkResult.bucketEnd = t.day * 86400 + 12 * 3600 + 10 * 60

\* the 5min bucket of 12:07:30 has been computed
C17_Witness ==
  /\ bkResult.done /\ bkBucket = "5min"
  /\ bkTimestamp.hours = 12 /\ bkTimestamp.minutes = 7 /\ bkTimestamp.seconds = 30
  /\ bkResult.bucketEnd - bkResult.bucketStart = 300

\* C18: for a day bucket of N > 1 the start is January 1st 00:00 plus k*N
\* days with k >= 0, the end is the start plus N days, start <= t < end.
C18_DayBucketAnchoredJan1 ==
  (bkResult.done /\ BucketMatch(bkBucket).unit = "day"
     /\ BucketMatch(bkBucket).num > 1) =>
    /\ \E k \in 0..366 : bkResult.bucketStart = k * Width(bkBucket)
    /\ bkResult.bucketEnd = bkResult.bucketStart + Width(bkBucket)
    /\ bkResult.bucketStart <= Seconds(bkTimestamp)
    /\ Seconds(bkTimestamp) < bkResult.bucketEnd

\* C38: for one bucket label, the windows of any two timestamps are the
\* same window or do not overlap.
C38_WindowsPartitionTime ==
  bkResult.done =>
    \A t2 \in Timestamps :
      LET r2 == getTimeBucket(t2, bkBucket)
      IN \/ /\ r2.bucketStart = bkResult.bucketStart
            /\ r2.bucketEnd = bkResult.bucketEnd
         \/ r2.bucketEnd <= bkResult.bucketStart
         \/ bkResult.bucketEnd <= r2.bucketStart

\* ------------------------------------------------ SpecLife: connect, health
\* BaseConnector.updateHealth (lines 43-52)
updateHealth_Mut(status, error) == health' = status /\ lastError' = lastError
updateHealth(status, error) == health' = status /\ lastError' = error

lifeUnchanged ==
  UNCHANGED <<clockVars, bpVars, appVars, muxVars, bpHist, muxHist, appHist,
              aggVars, bkVars>>
msgUnchanged ==
  UNCHANGED <<mode, posted, seenMessages, connBuffer, drained, aggregated,
              cursor, cursorWrites, pollPc, fetched, newestTweetId, crashes,
              accepted, deliveredText, dupDropped, settled, acceptLog,
              lastDrain>>

\* TwitterConnector.connect (lines 22-64) up to the first await of the
\* monitoring it starts: an interval this.pollInterval refers to is cleared
Connect(c) ==
  /\ connects[c].pc = "new"
  /\ \A d \in 1..(c - 1) : connects[d].pc # "new"
  /\ connects' = [connects EXCEPT ![c].pc = "awaiting"]
  /\ timers' = timers \ {pollInterval}
  /\ pollInterval' = NoHandle
  /\ UNCHANGED <<health, lastError, stream, streams>>
  /\ msgUnchanged /\ lifeUnchanged

\* the rest of connect: startStreamMonitoring (lines 80-148) or
\* startPollingMonitoring (lines 153-201) returns or throws, then lines
\* 66-74.  The stream and the interval of call c have handle c.
ApiOutcomes == {"ok", "rateLimit", "error"}
ConnectReturn(c, outcome) ==
  /\ connects[c].pc = "awaiting"
  /\ mode = "poll" => pollPc = "idle"
  /\ IF outcome = "error" \/ (mode = "stream" /\ outcome = "rateLimit")
     THEN /\ updateHealth("failed", "Request failed")
          /\ connects' = [connects EXCEPT ![c] = [pc |-> "thrown", error |-> "Request failed"]]
          /\ UNCHANGED <<pollInterval, timers, stream, streams>>
     ELSE /\ updateHealth("healthy", Null)
          /\ connects' = [connects EXCEPT ![c].pc = "ok"]
          /\ IF mode = "stream"
             THEN /\ stream' = c /\ streams' = streams \cup {c}
                  /\ UNCHANGED <<pollInterval, timers>>
             ELSE /\ pollInterval' = c /\ timers' = timers \cup {c}
                  /\ UNCHANGED <<stream, streams>>
  /\ msgUnchanged /\ lifeUnchanged

\* stream 'error' (lines 126-129) and 'connection error' (lines 132-135)
StreamError(h, kind) ==
  /\ h \in streams
  /\ IF kind = "error" THEN updateHealth("degraded", "Stream error")
     ELSE updateHealth("failed", "Stream connection failed")
  /\ UNCHANGED <<pollInterval, timers, stream, streams, connects>>
  /\ msgUnchanged /\ lifeUnchanged

\* the interval callback (lines 185-192): pollTweets throws, or catches a
\* rate limit itself (lines 292-308)
PollError(h, kind) ==
  /\ h \in timers /\ pollPc = "idle"
  /\ IF kind = "rateLimit" THEN updateHealth("degraded", "Rate limit reached")
     ELSE updateHealth("degraded", "Poll failed")
  /\ UNCHANGED <<pollInterval, timers, stream, streams, connects>>
  /\ msgUnchanged /\ lifeUnchanged

\* stream 'data' (line 123) of an open stream
StreamDataOf(h, tweetId) == h \in streams /\ StreamData(tweetId)

\* a poll whose search succeeds: the initial poll of a connect call (line
\* 182) or the interval callback (line 187)
PollTweetsOf(outcome) ==
  /\ timers # {} \/ \E c \in 1..MaxCalls : connects[c].pc = "awaiting"
  /\ PollTweets(outcome)

NextLife ==
  \/ \E text \in BOOLEAN : Post(text)
  \/ \E c \in 1..MaxCalls : Connect(c)
  \/ \E c \in 1..MaxCalls, outcome \in ApiOutcomes : ConnectReturn(c, outcome)
  \/ \E h \in 1..MaxCalls, kind \in {"error", "connection error"} :
       StreamError(h, kind)
  \/ \E h \in 1..MaxCalls, kind \in {"rateLimit", "error"} : PollError(h, kind)
  \/ \E h \in 1..MaxCalls, tweetId \in 1..MaxPosted :
       StreamDataOf(h, tweetId)
  \/ \E outcome \in DbOutcomes : StreamCursor(outcome)
  \/ \E outcome \in DbOutcomes : PollTweetsOf(outcome)
  \/ PollHandleTweet
  \/ \E outcome \in DbOutcomes : PollCursor(outcome)

SpecLife == InitConn /\ [][NextLife]_vars

\* ------------------------------------------------ claims under SpecLife
HealthStates == {"healthy", "degraded", "failed", "unknown"}

\* C23: when a connect call returns the health is healthy and lastError is
\* null; when it throws the health is failed and lastError is the message
\* of the error thrown to the caller; health is always one of healthy,
\* degraded, failed, unknown.
C23_ConnectSetsHealth ==
  /\ [](health \in HealthStates)
  /\ [][\A c \in 1..MaxCalls :
          /\ (connects[c].pc = "awaiting" /\ connects'[c].pc = "ok") =>
               (health' = "healthy" /\ lastError' = Null)
          /\ (connects[c].pc = "awaiting" /\ connects'[c].pc = "thrown") =>
               /\ health' = "failed" /\ connects'[c].error # Null
               /\ lastError' = connects'[c].error]_vars

\* a connect call threw after an earlier one had returned
C23_Witness ==
  /\ connects[1].pc = "ok" /\ connects[2].pc = "thrown"
  /\ health = "failed" /\ lastError = "Request failed"

\* C24: a transient upstream error (stream error, polling error, rate
\* limit) leaves the connector degraded, and when a poll then succeeds or a
\* message is accepted while it is degraded, it is healthy again.
C24_HealthFollowsUpstream ==
  [][/\ (lastError' # lastError
          /\ lastError' \in {"Stream error", "Poll failed", "Rate limit reached"})
         => health' = "degraded"
     /\ (health = "degraded"
          /\ ((pollPc = "handling" /\ pollPc' = "idle") \/ acceptLog' # acceptLog))
         => health' = "healthy"]_vars

\* C25: when two connect calls have returned and none is in progress, the
\* connector has exactly one upstream feed (one interval or one stream), and
\* no message is ever appended to its buffer twice.
C25_ConnectReentrant ==
  /\ (/\ Cardinality({c \in 1..MaxCalls : connects[c].pc = "ok"}) >= 2
      /\ \A c \in 1..MaxCalls : connects[c].pc # "awaiting")
       => Cardinality(timers) + Cardinality(streams) = 1
  /\ \A id \in 1..MaxPosted : Occ(id, acceptLog) <= 1

\* C21: the buffer and the drained outputs together are the accepted
\* messages in acceptance order, each once; a getMessages call returns the
\* messages accepted since the call before it, in that order, and leaves the
\* buffer empty; on an empty buffer it returns the empty list.
C21_Fifo ==
  /\ drained \o connBuffer = acceptLog
  /\ \A id \in 1..MaxPosted : Occ(id, acceptLog) <= 1
  /\ lastDrain.seen =>
       lastDrain.messages = SubSeq(acceptLog, lastDrain.from + 1, Len(drained))
C21_DrainReturnsAccepted ==
  /\ []C21_Fifo
  /\ [][(lastDrain'.seen /\ lastDrain' # lastDrain) =>
          /\ connBuffer' = <<>>
          /\ lastDrain'.messages = connBuffer
          /\ lastDrain'.from = Len(drained)]_vars

\* two accepted messages have been drained and a later drain, on the empty
\* buffer, returned the empty list
C21_Witness ==
  /\ lastDrain.seen /\ lastDrain.messages = <<>> /\ lastDrain.from = 2
  /\ Len(drained) = 2 /\ connBuffer = <<>>

\* C11: a message that was aggregated and covered by the persisted cursor
\* when the process died is not emitted again by the restarted connector.
C11_NoReemitAfterRestart ==
  \A id \in settled : id \notin SeqToSet(drained \o connBuffer)

\* C19: one pass over the registrations invokes the callback of every
\* matching registration exactly once and no other, also when callbacks
\* throw; routing an event changes neither the bot nor the registrations.
C19_Dispatched ==
  lastRoute.seen =>
    \A s \in Sources :
      Occ(s, lastRoute.calls) =
        IF s \in DOMAIN registrations
           /\ SelectsChat(registrations[s], lastRoute.msg)
           /\ registrations[s].topicId \in {NullTopic, TopicOf(lastRoute.msg)}
        THEN 1 ELSE 0
====
